---- MODULE Spec2Model ----
(***************************************************************************)
(* The Fallen dashboard: staff-permission resolution at login              *)
(* (app.py callback, auth.py, db.py staff_roles / role_config), the        *)
(* settings handlers that edit the two permission tables, and the action   *)
(* outbox (pending_dashboard_actions) with its audit trail.                *)
(*                                                                         *)
(* Strings that the code parses (environment variables, Discord role IDs,  *)
(* form fields) are sequences of one-character strings, so that strip(),   *)
(* isdigit(), split(",") and int() are computed and not assumed.           *)
(***************************************************************************)
EXTENDS Integers, Sequences, FiniteSets, TLC

VARIABLES
    env_admin,      \* os.environ["ADMIN_USER_IDS"], a string
    env_staff,      \* os.environ["STAFF_ROLE_IDS"], a string
    staff_roles,    \* table staff_roles: rows [discord_user_id, permission_tier]
    role_config,    \* table role_config: rows [discord_role_id, permission_tier]
    sessions,       \* signed session cookie currently held for each user id
    outbox,         \* table pending_dashboard_actions, in insertion order
    seq,            \* last value handed out by pending_dashboard_actions_id_seq
    audit,          \* table dashboard_audit_log, in insertion order
    hist,           \* history: the IDs queue_action has returned, with their
                    \* targets, and the IDs the bot has written back
    inflight,       \* the staff-action request a worker is in the middle of
    blobs,          \* table json_data: the documents under main_data,
                    \* duels_data and warnings_data, written by the bot
    reply           \* what the read served last handed back

\* the data layer's part of the state
data == <<blobs, reply>>

vars == <<env_admin, env_staff, staff_roles, role_config, sessions,
          outbox, seq, audit, hist, inflight, blobs, reply>>

-----------------------------------------------------------------------------
(* Bounds of the exploration.                                              *)

MaxActions == 2     \* outbox rows explored at the storage layer
MaxBurned == 1      \* sequence values lost to failed INSERTs
MaxQueued == 1      \* outbox rows explored at the request layer
MaxAudit == 1       \* audit rows explored at the request layer
MaxUsers == 2
MaxWorkers == 2
PoolSize == 1       \* profiles in the user map of main_data

-----------------------------------------------------------------------------
(* Python string primitives over sequences of characters.                  *)

Digits == {"0", "1", "2", "3", "4", "5", "6", "7", "8", "9"}

DigitVal(c) ==
    CASE c = "0" -> 0 [] c = "1" -> 1 [] c = "2" -> 2 [] c = "3" -> 3
      [] c = "4" -> 4 [] c = "5" -> 5 [] c = "6" -> 6 [] c = "7" -> 7
      [] c = "8" -> 8 [] c = "9" -> 9

RECURSIVE LStrip(_)
LStrip(s) == IF s # <<>> /\ Head(s) = " " THEN LStrip(Tail(s)) ELSE s

RECURSIVE RStrip(_)
RStrip(s) ==
    IF s # <<>> /\ s[Len(s)] = " " THEN RStrip(SubSeq(s, 1, Len(s) - 1)) ELSE s

\* str.strip()
Strip(s) == RStrip(LStrip(s))

\* str.isdigit(): non-empty and every character a digit
IsDigit(s) == s # <<>> /\ \A i \in 1..Len(s) : s[i] \in Digits

RECURSIVE DecimalValue(_)
DecimalValue(s) ==
    IF s = <<>> THEN 0
    ELSE 10 * DecimalValue(SubSeq(s, 1, Len(s) - 1)) + DigitVal(s[Len(s)])

\* int(s) succeeds on an optionally padded run of digits, raises ValueError
\* otherwise
IntParses(s) == IsDigit(Strip(s))
IntOf(s) == DecimalValue(Strip(s))

\* str.split(","): the pieces between commas, empty pieces included
RECURSIVE Split(_)
Split(s) ==
    IF \A i \in 1..Len(s) : s[i] # ","
    THEN <<s>>
    ELSE LET k == CHOOSE i \in 1..Len(s) :
                    s[i] = "," /\ \A j \in 1..(i - 1) : s[j] # ","
         IN  <<SubSeq(s, 1, k - 1)>> \o Split(SubSeq(s, k + 1, Len(s)))

Range(f) == {f[i] : i \in DOMAIN f}

Max(S) == CHOOSE x \in S : \A y \in S : y <= x

-----------------------------------------------------------------------------
(* The values the exploration draws requests and configuration from.       *)

UserIds == {1, 2}

R10 == <<"1", "0">>
R11 == <<"1", "1">>
RX == <<"x">>

\* role lists Discord may report for a member (roles of the guild member
\* object); RX stands for an entry that is not a decimal snowflake
RoleLists == {<<>>, <<R10>>, <<R11, R10>>, <<R10, RX>>}

\* ADMIN_USER_IDS: unset, or "1, x"
AdminEnvChoices == {<<>>, <<"1", ",", " ", "x">>}

\* STAFF_ROLE_IDS: unset, or "10 ,"
StaffEnvChoices == {<<>>, <<"1", "0", " ", ",">>}

Tiers == {1, 2, 3}

-----------------------------------------------------------------------------------------------------------------------------------------------------
(* auth.py.  The environment and the two permission tables are passed      *)
(* explicitly, so that one resolution can be compared with the resolution  *)
(* under a configuration that has one more entry.                          *)

get_staff_role_ids(raw) ==
    IF raw = <<>> THEN {}
    ELSE {Strip(r) : r \in {p \in Range(Split(raw)) : Strip(p) # <<>>}}

get_admin_user_ids(raw) ==
    IF raw = <<>> THEN {}
    ELSE {IntOf(t) : t \in {p \in Range(Split(raw)) : IsDigit(Strip(p))}}

check_is_staff(S, user_id, role_ids) ==
    IF user_id \in get_admin_user_ids(S.env_admin) THEN TRUE
    ELSE IF get_staff_role_ids(S.env_staff) = {} THEN FALSE
    ELSE (Range(role_ids) \cap get_staff_role_ids(S.env_staff)) # {}

-----------------------------------------------------------------------------
(* db.py: lookups in the permission tables.  `ok' is whether the storage   *)
(* call goes through; a result is [exc, is_staff, tier], exc meaning that  *)
(* the call raised to its caller instead of returning.                     *)

Returned(b, t) == [exc |-> FALSE, is_staff |-> b, tier |-> t]
Raised == [exc |-> TRUE, is_staff |-> FALSE, tier |-> 0]

is_db_staff(S, discord_user_id, ok) ==
    IF ~ok THEN Returned(FALSE, 0)
    ELSE LET rows == {r \in S.staff_roles :
                        r.discord_user_id = discord_user_id}
         IN  IF rows # {}
             THEN Returned(TRUE, (CHOOSE r \in rows : TRUE).permission_tier)
             ELSE Returned(FALSE, 0)

\* variant: the int() conversion sits outside the try block
check_role_permissions_unguarded(S, role_ids, ok) ==
    IF role_ids = <<>> THEN Returned(FALSE, 0)
    ELSE IF \E i \in 1..Len(role_ids) : ~IntParses(role_ids[i]) THEN Raised
    ELSE IF ~ok THEN Returned(FALSE, 0)
    ELSE LET role_ids_int == {IntOf(role_ids[i]) : i \in 1..Len(role_ids)}
             rows == {r \in S.role_config :
                        r.discord_role_id \in role_ids_int}
         IN  IF rows # {}
             THEN Returned(TRUE, Max({r.permission_tier : r \in rows}))
             ELSE Returned(FALSE, 0)

check_role_permissions(S, role_ids, ok) ==
    IF role_ids = <<>> THEN Returned(FALSE, 0)
    ELSE IF ~ok THEN Returned(FALSE, 0)
    ELSE IF \E i \in 1..Len(role_ids) : ~IntParses(role_ids[i])
         THEN Returned(FALSE, 0)
    ELSE LET role_ids_int == {IntOf(role_ids[i]) : i \in 1..Len(role_ids)}
             rows == {r \in S.role_config :
                        r.discord_role_id \in role_ids_int}
         IN  IF rows # {}
             THEN Returned(TRUE, Max({r.permission_tier : r \in rows}))
             ELSE Returned(FALSE, 0)

-----------------------------------------------------------------------------
(* app.py callback: staff status from the four sources, in program order.  *)
(* The result is the session dictionary, or exc when a lookup raised and   *)
(* the request ended in the 500 handler without a cookie being set.        *)

\* the pair (is_staff, permission_tier) the callback carries along
Verdict(b, t) == [is_staff |-> b, permission_tier |-> t]

\* "1. Admin override (env var)"
AdminOverride(S, v, uid_int) ==
    IF uid_int \in get_admin_user_ids(S.env_admin)
    THEN Verdict(TRUE, 3)
    ELSE v

\* variant: the row's tier replaces the tier found so far
StaffRolesStepAssigns(v, db) ==
    IF db.is_staff THEN Verdict(TRUE, db.tier) ELSE v

\* "2. Check database staff_roles table (manual adds)"
StaffRolesStep(v, db) ==
    IF db.is_staff
    THEN Verdict(TRUE, Max({v.permission_tier, db.tier}))
    ELSE v

\* variant: the mapped tier replaces the tier found so far
RoleConfigStepAssigns(v, role) ==
    IF role.is_staff THEN Verdict(TRUE, role.tier) ELSE v

\* variant: the mapping is skipped for somebody who is staff already
RoleConfigStepYields(v, role) ==
    IF role.is_staff /\ ~v.is_staff THEN Verdict(TRUE, role.tier) ELSE v

\* "3. Check role_config table (auto-role mapping)"
RoleConfigStep(v, role) ==
    IF role.is_staff
    THEN Verdict(TRUE, Max({v.permission_tier, role.tier}))
    ELSE v

\* "4. Env var STAFF_ROLE_IDS fallback"
EnvFallback(S, v, uid_int, role_ids) ==
    IF ~v.is_staff /\ check_is_staff(S, uid_int, role_ids)
    THEN Verdict(TRUE, Max({v.permission_tier, 2}))
    ELSE v

Callback(S, uid_int, role_ids, dbOk, roleOk) ==
    LET v0 == Verdict(check_is_staff(S, uid_int, role_ids), 0)
        v1 == AdminOverride(S, v0, uid_int)
        db == is_db_staff(S, uid_int, dbOk)
        v2 == StaffRolesStep(v1, db)
        role == check_role_permissions(S, role_ids, roleOk)
        v3 == RoleConfigStep(v2, role)
        v4 == EnvFallback(S, v3, uid_int, role_ids)
    IN  [exc |-> db.exc \/ role.exc,
         session |-> [id |-> uid_int,
                      is_staff |-> v4.is_staff,
                      permission_tier |-> v4.permission_tier]]

\* the configuration and tables as they are now
Store == [env_admin |-> env_admin, env_staff |-> env_staff,
          staff_roles |-> staff_roles, role_config |-> role_config]

\* auth.get_session: the cookie's dictionary, or None
HasSession(u) == u \in DOMAIN sessions

\* _ctx(request)["is_staff"]
CtxIsStaff(u) == IF HasSession(u) THEN sessions[u].is_staff ELSE FALSE

\* _require_staff(c): TRUE when the request must be turned away
_require_staff(u) == ~HasSession(u) \/ ~CtxIsStaff(u)

SetSession(u, s) ==
    [x \in DOMAIN sessions \cup {u} |-> IF x = u THEN s ELSE sessions[x]]

-----------------------------------------------------------------------------
(* db.py: audit log and permission-table writes                            *)

NoneId == -1        \* Python None in an integer column

\* variant: on an error the table is dropped and created again
add_audit_recreates(log, ok, staff_id, action, target_id) ==
    IF ok
    THEN Append(log, [staff_id |-> staff_id, action |-> action,
                      target_id |-> target_id])
    ELSE <<>>

\* add_audit: the INSERT, or nothing when storage fails (exception swallowed)
add_audit(log, ok, staff_id, action, target_id) ==
    IF ok
    THEN Append(log, [staff_id |-> staff_id, action |-> action,
                      target_id |-> target_id])
    ELSE log

\* INSERT ... ON CONFLICT (discord_user_id) DO UPDATE SET permission_tier
\* variant: a plain INSERT, no "ON CONFLICT ... DO UPDATE", on a table
\* without the UNIQUE constraint
add_staff_member_appends(discord_user_id, permission_tier) ==
    staff_roles \cup {[discord_user_id |-> discord_user_id,
                       permission_tier |-> permission_tier]}

\* INSERT ... ON CONFLICT (discord_user_id) DO UPDATE SET permission_tier
add_staff_member(discord_user_id, permission_tier) ==
    {r \in staff_roles : r.discord_user_id # discord_user_id}
        \cup {[discord_user_id |-> discord_user_id,
               permission_tier |-> permission_tier]}

remove_staff_member(discord_user_id) ==
    {r \in staff_roles : r.discord_user_id # discord_user_id}

add_role_config(discord_role_id, permission_tier) ==
    {r \in role_config : r.discord_role_id # discord_role_id}
        \cup {[discord_role_id |-> discord_role_id,
               permission_tier |-> permission_tier]}

remove_role_config(discord_role_id) ==
    {r \in role_config : r.discord_role_id # discord_role_id}

\* variant: the submitted tier is stored as it comes
ClampTierKeeps(tier) == tier

\* "if tier not in (1, 2, 3): tier = 1"
ClampTier(tier) == IF tier \in {1, 2, 3} THEN tier ELSE 1

-----------------------------------------------------------------------------
(* Settings handlers, as functions from the request to what the handler    *)
(* leaves behind: the table it edits, the audit log and the response.      *)

Settings(table, log, resp) == [table |-> table, audit |-> log, resp |-> resp]

\* POST /staff/settings/add_staff
add_staff(u, discord_id_raw, form_tier, dbOk, auditOk) ==
    LET discord_id == Strip(discord_id_raw)
        tier == ClampTier(form_tier)
    IN  IF _require_staff(u)
        THEN Settings(staff_roles, audit, "/?error=unauthorized")
        ELSE IF ~IsDigit(discord_id)
        THEN Settings(staff_roles, audit, "/staff/settings?error=invalid_id")
        ELSE IF ~dbOk
        THEN Settings(staff_roles, audit, "/staff/settings?error=db_error")
        ELSE Settings(add_staff_member(IntOf(discord_id), tier),
                      add_audit(audit, auditOk, sessions[u].id, "add_staff",
                                IntOf(discord_id)),
                      "/staff/settings?success=staff_added")

\* POST /staff/settings/remove_staff/{user_id}
remove_staff(u, user_id, dbOk, auditOk) ==
    IF _require_staff(u)
    THEN Settings(staff_roles, audit, "/?error=unauthorized")
    ELSE IF ~dbOk
    THEN Settings(staff_roles, audit, "/staff/settings?success=staff_removed")
    ELSE Settings(remove_staff_member(user_id),
                  add_audit(audit, auditOk, sessions[u].id, "remove_staff",
                            user_id),
                  "/staff/settings?success=staff_removed")

\* POST /staff/settings/add_role
add_role(u, role_id_raw, form_tier, dbOk, auditOk) ==
    LET role_id == Strip(role_id_raw)
        tier == ClampTier(form_tier)
    IN  IF _require_staff(u)
        THEN Settings(role_config, audit, "/?error=unauthorized")
        ELSE IF ~IsDigit(role_id)
        THEN Settings(role_config, audit,
                      "/staff/settings?error=invalid_role_id")
        ELSE IF ~dbOk
        THEN Settings(role_config, audit, "/staff/settings?error=db_error")
        ELSE Settings(add_role_config(IntOf(role_id), tier),
                      add_audit(audit, auditOk, sessions[u].id,
                                "add_role_config", NoneId),
                      "/staff/settings?success=role_added")

\* POST /staff/settings/remove_role/{role_id}
remove_role(u, role_id, dbOk, auditOk) ==
    IF _require_staff(u)
    THEN Settings(role_config, audit, "/?error=unauthorized")
    ELSE IF ~dbOk
    THEN Settings(role_config, audit, "/staff/settings?success=role_removed")
    ELSE Settings(remove_role_config(role_id),
                  add_audit(audit, auditOk, sessions[u].id,
                            "remove_role_config", NoneId),
                  "/staff/settings?success=role_removed")

-----------------------------------------------------------------------------
(* db.py: the documents of json_data, as json.loads hands them over.       *)
(* A JSON scalar is [t, n, s]: null, an integer n, or a string s (a        *)
(* sequence of characters).  A JSON object is given in its iteration       *)
(* order: the user map is a sequence of [key, profile] with distinct keys; *)
(* a profile is a function from field names to scalars.                    *)

JNull == [t |-> "null", n |-> 0, s |-> <<>>]
JInt(n) == [t |-> "int", n |-> n, s |-> <<>>]
JStr(s) == [t |-> "str", n |-> 0, s |-> s]

\* What the SELECT of a key and json.loads give is the "form" of its
\* document: "object" for a JSON object, whose entries the other fields
\* hold; "list" for a JSON array with an element in it; "text" for a text
\* json.loads rejects; "error" for a SELECT that raises or times out.
\* the row of a key is missing
NoMain == [row |-> FALSE, empty |-> TRUE, users |-> <<>>,
           has_roster |-> FALSE, roster |-> <<>>, form |-> "object"]
NoDuels == [row |-> FALSE, empty |-> TRUE, has_elo |-> FALSE, elo |-> <<>>,
            form |-> "object"]
NoWarnings == [row |-> FALSE, empty |-> TRUE, users |-> <<>>,
               form |-> "object"]

\* the row holds the empty document {}
EmptyMain == [NoMain EXCEPT !.row = TRUE]
EmptyDuels == [NoDuels EXCEPT !.row = TRUE]
EmptyWarnings == [NoWarnings EXCEPT !.row = TRUE]

\* {"users": {...}, "roster": [...]} and {"users": {...}}
MainDoc(users, roster) ==
    [row |-> TRUE, empty |-> FALSE, users |-> users, has_roster |-> TRUE,
     roster |-> roster, form |-> "object"]
MainDocNoRoster(users) ==
    [row |-> TRUE, empty |-> FALSE, users |-> users, has_roster |-> FALSE,
     roster |-> <<>>, form |-> "object"]

\* {"elo": {...}, "duel_history": [...]} and {"duel_history": [...]}
DuelsDoc(elo) ==
    [row |-> TRUE, empty |-> FALSE, has_elo |-> TRUE, elo |-> elo,
     form |-> "object"]
DuelsDocNoElo ==
    [row |-> TRUE, empty |-> FALSE, has_elo |-> FALSE, elo |-> <<>>,
     form |-> "object"]

\* {"users": {id: {"warnings": [...], "total_points": n}}}; an entry is
\* [has_warnings, warnings, has_points, total_points]
WarningsDoc(users) == [row |-> TRUE, empty |-> FALSE, users |-> users, form |-> "object"]

\* the row of a document in another form
InForm(doc, form) == [doc EXCEPT !.row = TRUE, !.empty = FALSE, !.form = form]

DefaultElo == 1000      \* ".get(str(user_id), 1000)", ".get(uid, 1000)"
RosterSlots == 10       \* ".get("roster", [None] * 10)"

\* str(n) for an integer n >= 0
DigitOf(d) ==
    CASE d = 0 -> "0" [] d = 1 -> "1" [] d = 2 -> "2" [] d = 3 -> "3"
      [] d = 4 -> "4" [] d = 5 -> "5" [] d = 6 -> "6" [] d = 7 -> "7"
      [] d = 8 -> "8" [] d = 9 -> "9"

RECURSIVE StrOfInt(_)
StrOfInt(n) ==
    IF n < 10 THEN <<DigitOf(n)>>
    ELSE Append(StrOfInt(n \div 10), DigitOf(n % 10))

\* str(slot) for a roster slot that is not None
StrOf(v) == IF v.t = "int" THEN StrOfInt(v.n) ELSE v.s

\* _blob(key): what json.loads returns for the row; {} when there is no
\* row, and from "except Exception" when the SELECT or json.loads raises
_blob(key) ==
    IF blobs[key].row /\ blobs[key].form \in {"object", "list"} THEN blobs[key]
    ELSE [blobs[key] EXCEPT !.empty = TRUE, !.form = "object"]

\* ".get(...)" on what a loader returned: AttributeError on a list
GetRaises(doc) == doc.form # "object"

\* _main(), _duels(), _warnings(): "await self._blob(key) or {default}",
\* the default taken when _blob hands back the falsy {}
_main ==
    IF _blob("main_data").empty THEN MainDoc(<<>>, <<>>)
    ELSE _blob("main_data")
_duels ==
    IF _blob("duels_data").empty THEN DuelsDoc(<<>>)
    ELSE _blob("duels_data")
_warnings ==
    IF _blob("warnings_data").empty THEN WarningsDoc(<<>>)
    ELSE _blob("warnings_data")

\* _users(): .get("users", {})
_users == _main.users

\* the keys of the user map, and dict lookups in it
UserKeys(users) == {users[i].key : i \in 1..Len(users)}
ProfileOf(users, key) ==
    users[CHOOSE i \in 1..Len(users) : users[i].key = key].profile

\* duels.get("elo", {})
EloMap == IF _duels.has_elo THEN _duels.elo ELSE <<>>

\* elo_map.get(key, 1000)
EloOf(key) == IF key \in DOMAIN EloMap THEN EloMap[key] ELSE DefaultElo

\* get_roster: .get("roster", [None] * 10)
get_roster ==
    IF _main.has_roster THEN _main.roster
    ELSE [i \in 1..RosterSlots |-> JNull]

\* variant: the slot is compared with the ID without str()
get_stage_rank_unnormalized(uid) ==
    LET roster == get_roster
        Hits == {i \in 1..Len(roster) : roster[i] = JInt(uid)}
    IN  IF Hits = {} THEN NoneId
        ELSE CHOOSE i \in Hits : \A j \in Hits : i <= j

\* get_stage_rank: "i + 1" for the first slot with str(slot) == str(uid),
\* None otherwise
get_stage_rank(uid) ==
    LET roster == get_roster
        Hits == {i \in 1..Len(roster) :
                    roster[i].t # "null" /\ StrOf(roster[i]) = StrOfInt(uid)}
    IN  IF Hits = {} THEN NoneId
        ELSE CHOOSE i \in Hits : \A j \in Hits : i <= j

\* the per-user entry of the warnings document, {} when there is none
NoEntry == [has_warnings |-> FALSE, warnings |-> <<>>, has_points |-> FALSE,
            total_points |-> 0]
WarningEntry(key) ==
    IF key \in DOMAIN _warnings.users THEN _warnings.users[key] ELSE NoEntry

\* get_user returning None
NoUser == [present |-> FALSE, fields |-> <<>>, user_id |-> NoneId,
           elo_rating |-> 0, warnings |-> <<>>, warning_points |-> 0,
           stage_rank |-> NoneId]

\* variant: the ELO default is 0
get_user_elo_zero(user_id) ==
    LET key == StrOfInt(user_id)
    IN  IF key \notin UserKeys(_users) \/ DOMAIN ProfileOf(_users, key) = {}
        THEN NoUser
        ELSE [present |-> TRUE, fields |-> ProfileOf(_users, key),
              user_id |-> user_id,
              elo_rating |-> IF key \in DOMAIN EloMap THEN EloMap[key] ELSE 0,
              warnings |-> IF WarningEntry(key).has_warnings
                           THEN WarningEntry(key).warnings ELSE <<>>,
              warning_points |-> IF WarningEntry(key).has_points
                                 THEN WarningEntry(key).total_points ELSE 0,
              stage_rank |-> get_stage_rank(user_id)]

\* get_user: None when users.get(str(user_id)) is missing or falsy (an
\* empty profile), else the profile with the fields taken from the other
\* documents written over it
get_user(user_id) ==
    LET key == StrOfInt(user_id)
    IN  IF key \notin UserKeys(_users) \/ DOMAIN ProfileOf(_users, key) = {}
        THEN NoUser
        ELSE [present |-> TRUE, fields |-> ProfileOf(_users, key),
              user_id |-> user_id, elo_rating |-> EloOf(key),
              warnings |-> IF WarningEntry(key).has_warnings
                           THEN WarningEntry(key).warnings ELSE <<>>,
              warning_points |-> IF WarningEntry(key).has_points
                                 THEN WarningEntry(key).total_points ELSE 0,
              stage_rank |-> get_stage_rank(user_id)]

\* get_user_warnings: the user's entry of the warnings document as stored,
\* {"warnings": [], "total_points": 0} when there is none
get_user_warnings(user_id) ==
    LET key == StrOfInt(user_id)
    IN  IF key \in DOMAIN _warnings.users THEN _warnings.users[key]
        ELSE [has_warnings |-> TRUE, warnings |-> <<>>, has_points |-> TRUE,
              total_points |-> 0]

\* the sort fields get_leaderboard accepts
AllowedSorts ==
    {"xp", "level", "coins", "elo_rating", "voice_time", "messages", "wins",
     "raid_wins", "raid_participation", "weekly_xp", "monthly_xp",
     "training_attendance", "tryout_attendance"}

\* "d.get(sort_by, 0) or 0" on a stored profile
FieldOr0(profile, field) ==
    IF field \in DOMAIN profile /\ profile[field].t = "int"
    THEN profile[field].n
    ELSE 0

\* an entry of the leaderboard: the profile with user_id and elo_rating
\* written over it
BoardEntry(key, profile) ==
    [user_id |-> IntOf(key), fields |-> profile, elo_rating |-> EloOf(key)]

\* "x.get(sort_by, 0) or 0" on an entry
EntryKey(x, sort_by) ==
    CASE sort_by = "elo_rating" -> x.elo_rating
      [] sort_by = "user_id" -> x.user_id
      [] OTHER -> FieldOr0(x.fields, sort_by)

\* list.sort(key=..., reverse=True): stable, so an entry goes behind the
\* entries before it whose key is at least its own
RECURSIVE SortDesc(_, _)
SortDesc(lst, sort_by) ==
    IF lst = <<>> THEN <<>>
    ELSE LET init == SortDesc(SubSeq(lst, 1, Len(lst) - 1), sort_by)
             x == lst[Len(lst)]
             k == Cardinality({i \in 1..Len(init) :
                      EntryKey(init[i], sort_by) >= EntryKey(x, sort_by)})
         IN  SubSeq(init, 1, k) \o <<x>> \o SubSeq(init, k + 1, Len(init))

\* lst[a:b] of Python, negative indices counted from the end
SliceIndex(n, i) ==
    IF i < 0 THEN (IF n + i < 0 THEN 0 ELSE n + i)
    ELSE IF i > n THEN n ELSE i
Slice(lst, a, b) ==
    SubSeq(lst, SliceIndex(Len(lst), a) + 1, SliceIndex(Len(lst), b))

\* variant: a sort field outside the allow-list is used as given
get_leaderboard_any_field(sort_by, limit, offset) ==
    LET lst == [i \in 1..Len(_users) |->
                    BoardEntry(_users[i].key, _users[i].profile)]
    IN  Slice(SortDesc(lst, sort_by), offset, offset + limit)

\* variant: sorted ascending
get_leaderboard_ascending(sort_by, limit, offset) ==
    LET field == IF sort_by \notin AllowedSorts THEN "xp" ELSE sort_by
        lst == [i \in 1..Len(_users) |->
                    BoardEntry(_users[i].key, _users[i].profile)]
        srt == SortDesc(lst, field)
    IN  Slice([i \in 1..Len(srt) |-> srt[Len(srt) - i + 1]],
              offset, offset + limit)

\* get_leaderboard
get_leaderboard(sort_by, limit, offset) ==
    LET field == IF sort_by \notin AllowedSorts THEN "xp" ELSE sort_by
        lst == [i \in 1..Len(_users) |->
                    BoardEntry(_users[i].key, _users[i].profile)]
    IN  Slice(SortDesc(lst, field), offset, offset + limit)

\* variant: users at or above the subject's value are counted
get_user_rank_counts_ties(user_id, sort_by) ==
    LET users == _users
        uid == StrOfInt(user_id)
    IN  IF uid \notin UserKeys(users) THEN 0
        ELSE IF sort_by = "elo_rating"
        THEN 1 + Cardinality({u \in UserKeys(users) :
                                u # uid /\ EloOf(u) >= EloOf(uid)})
        ELSE 1 + Cardinality({u \in UserKeys(users) :
                u # uid /\ FieldOr0(ProfileOf(users, u), sort_by)
                              >= FieldOr0(ProfileOf(users, uid), sort_by)})

\* get_user_rank
get_user_rank(user_id, sort_by) ==
    LET users == _users
        uid == StrOfInt(user_id)
    IN  IF uid \notin UserKeys(users) THEN 0
        ELSE IF sort_by = "elo_rating"
        THEN 1 + Cardinality({u \in UserKeys(users) :
                                u # uid /\ EloOf(u) > EloOf(uid)})
        ELSE 1 + Cardinality({u \in UserKeys(users) :
                u # uid /\ FieldOr0(ProfileOf(users, u), sort_by)
                              > FieldOr0(ProfileOf(users, uid), sort_by)})

\* Instants are seconds since 2026-10-01T00:00:00+00:00.  A "last_active"
\* text is kept whole, as the one element of its string.
\* la.replace("Z", "+00:00") on the texts of IsoTexts
ReplaceZ(text) ==
    IF text = "2026-11-04T12:00:00Z" THEN "2026-11-04T12:00:00+00:00"
    ELSE text

\* datetime.fromisoformat, then "replace(tzinfo=utc)" on a naive result:
\* the instant of each text it accepts; it raises ValueError on the others
IsoInstant ==
    ("2026-11-05T06:00:00+00:00" :> 3045600)
        @@ ("2026-11-04T12:00:00+00:00" :> 2980800)
        @@ ("2026-10-30T12:00:00" :> 2548800)
        @@ ("2026-10-29T12:00:00+00:00" :> 2462400)
        @@ ("2026-10-06T12:00:00+00:00" :> 475200)
        @@ ("2026-11-05T13:00:00+02:00" :> 3063600)

SecondsPerDay == 86400

\* variant: "if" in place of each "elif", the windows cumulative
activity_bucket_cumulative(u, now) ==
    IF "last_active" \notin DOMAIN u THEN {"inactive"}
    ELSE LET la == u["last_active"]
         IN  IF la.t = "null" \/ (la.t = "str" /\ la.s \in {<<>>, <<"">>})
                \/ (la.t = "int" /\ la.n = 0)
             THEN {"inactive"}
             ELSE IF la.t = "int" \/ ReplaceZ(la.s[1]) \notin DOMAIN IsoInstant
             THEN {"inactive"}
             ELSE LET diff == now - IsoInstant[ReplaceZ(la.s[1])]
                  IN  {b \in {"24h", "7d", "30d"} :
                        \/ b = "24h" /\ diff < SecondsPerDay
                        \/ b = "7d" /\ diff < 7 * SecondsPerDay
                        \/ b = "30d" /\ diff < 30 * SecondsPerDay}
                      \cup (IF diff < 30 * SecondsPerDay THEN {}
                            ELSE {"inactive"})

\* the buckets get_analytics counts one user in: "if la:" is false for a
\* missing, null or empty last_active; a number has no tzinfo and a text
\* may not parse, and "except:" counts both as inactive
activity_bucket(u, now) ==
    IF "last_active" \notin DOMAIN u THEN {"inactive"}
    ELSE LET la == u["last_active"]
         IN  IF la.t = "null" \/ (la.t = "str" /\ la.s \in {<<>>, <<"">>})
                \/ (la.t = "int" /\ la.n = 0)
             THEN {"inactive"}
             ELSE IF la.t = "int" \/ ReplaceZ(la.s[1]) \notin DOMAIN IsoInstant
             THEN {"inactive"}
             ELSE LET diff == now - IsoInstant[ReplaceZ(la.s[1])]
                  IN  IF diff < SecondsPerDay THEN {"24h"}
                      ELSE IF diff < 7 * SecondsPerDay THEN {"7d"}
                      ELSE IF diff < 30 * SecondsPerDay THEN {"30d"}
                      ELSE {"inactive"}

\* get_analytics at the instant now: "total_users" and
\* "activity_breakdown" of the result (the other entries of the result
\* are sums and rankings over the same user map)
get_analytics(now) ==
    LET users == _users
        Count(b) == Cardinality({i \in 1..Len(users) :
                                    b \in activity_bucket(users[i].profile, now)})
    IN  [total_users |-> Len(users),
         activity_breakdown |->
            [b \in {"24h", "7d", "30d", "inactive"} |-> Count(b)]]

-----------------------------------------------------------------------------
(* Requests: every action is one request served from start to finish.      *)

\* GET /auth/callback for Discord user u holding role_ids in the guild
Login(u, role_ids, dbOk, roleOk) ==
    LET r == Callback(Store, u, role_ids, dbOk, roleOk)
    IN  /\ ~r.exc
        /\ sessions' = SetSession(u, r.session)
        /\ UNCHANGED <<env_admin, env_staff, staff_roles, role_config,
                       outbox, seq, audit, hist, inflight, data>>

\* GET /auth/logout
Logout(u) ==
    /\ HasSession(u)
    /\ sessions' = [x \in DOMAIN sessions \ {u} |-> sessions[x]]
    /\ UNCHANGED <<env_admin, env_staff, staff_roles, role_config,
                   outbox, seq, audit, hist, inflight, data>>

AddStaff(u, discord_id_raw, form_tier, dbOk, auditOk) ==
    LET r == add_staff(u, discord_id_raw, form_tier, dbOk, auditOk)
    IN  /\ staff_roles' = r.table
        /\ audit' = r.audit
        /\ UNCHANGED <<env_admin, env_staff, role_config, sessions,
                       outbox, seq, hist, inflight, data>>

RemoveStaff(u, user_id, dbOk, auditOk) ==
    LET r == remove_staff(u, user_id, dbOk, auditOk)
    IN  /\ staff_roles' = r.table
        /\ audit' = r.audit
        /\ UNCHANGED <<env_admin, env_staff, role_config, sessions,
                       outbox, seq, hist, inflight, data>>

AddRole(u, role_id_raw, form_tier, dbOk, auditOk) ==
    LET r == add_role(u, role_id_raw, form_tier, dbOk, auditOk)
    IN  /\ role_config' = r.table
        /\ audit' = r.audit
        /\ UNCHANGED <<env_admin, env_staff, staff_roles, sessions,
                       outbox, seq, hist, inflight, data>>

RemoveRole(u, role_id, dbOk, auditOk) ==
    LET r == remove_role(u, role_id, dbOk, auditOk)
    IN  /\ role_config' = r.table
        /\ audit' = r.audit
        /\ UNCHANGED <<env_admin, env_staff, staff_roles, sessions,
                       outbox, seq, hist, inflight, data>>

-----------------------------------------------------------------------------
(* Spec: the permission subsystem.  Configuration from the environment,    *)
(* empty tables as created by connect(), nobody logged in.  The audit      *)
(* INSERT of a settings handler is explored in its failing outcome only    *)
(* (add_audit swallows it): no handler reads dashboard_audit_log, so the   *)
(* permission tables and sessions reached are the same either way.         *)

\* values posted to the settings pages
FormIds == {<<"1">>, <<" ", "2">>, RX}
FormRoleIds == {R10, <<"1", "1", " ">>, RX}
FormTiers == {2, 3, 7}
PathRoleIds == {10, 11}

NoHistory == [returned |-> {}, written |-> {}]

\* json_data without a row for any of the three keys
NoBlobs == [main_data |-> NoMain, duels_data |-> NoDuels,
            warnings_data |-> NoWarnings]

\* no read served yet
NoReply == [op |-> "", args |-> <<>>, result |-> <<>>]

\* no request is being served
Idle == [stage |-> "idle", route |-> "", u |-> 0, ret |-> 0]

Init ==
    /\ env_admin \in AdminEnvChoices
    /\ env_staff \in StaffEnvChoices
    /\ staff_roles = {}
    /\ role_config = {}
    /\ sessions = <<>>
    /\ outbox = <<>>
    /\ seq = 0
    /\ audit = <<>>
    /\ hist = NoHistory
    /\ inflight = Idle
    /\ blobs = NoBlobs
    /\ reply = NoReply

LoginStep == \E u \in UserIds, rl \in RoleLists, dbOk, roleOk \in BOOLEAN :
                Login(u, rl, dbOk, roleOk)
LogoutStep == \E u \in UserIds : Logout(u)
AddStaffStep == \E u \in UserIds, d \in FormIds, t \in FormTiers,
                   dbOk \in BOOLEAN :
                    AddStaff(u, d, t, dbOk, FALSE)
RemoveStaffStep == \E u \in UserIds, d \in UserIds, dbOk \in BOOLEAN :
                    RemoveStaff(u, d, dbOk, FALSE)
AddRoleStep == \E u \in UserIds, d \in FormRoleIds, t \in FormTiers,
                  dbOk \in BOOLEAN :
                    AddRole(u, d, t, dbOk, FALSE)
RemoveRoleStep == \E u \in UserIds, d \in PathRoleIds, dbOk \in BOOLEAN :
                    RemoveRole(u, d, dbOk, FALSE)

Next ==
    \/ LoginStep
    \/ LogoutStep
    \/ AddStaffStep
    \/ RemoveStaffStep
    \/ AddRoleStep
    \/ RemoveRoleStep

Spec == Init /\ [][Next]_vars

-----------------------------------------------------------------------------
(* SpecStaff: logins and the two staff_roles requests, each request        *)
(* leaving in reply what was posted, whether its statement went through    *)
(* and the redirect it answered.                                           *)

StaffPosted(u, id, tier, dbOk) == [u |-> u, id |-> id, tier |-> tier, dbOk |-> dbOk]

AddStaffRequest(u, discord_id_raw, form_tier, dbOk) ==
    LET r == add_staff(u, discord_id_raw, form_tier, dbOk, FALSE)
    IN  /\ staff_roles' = r.table
        /\ audit' = r.audit
        /\ reply' = [op |-> "add_staff",
                     args |-> StaffPosted(u, discord_id_raw, form_tier, dbOk),
                     result |-> r.resp]
        /\ UNCHANGED <<env_admin, env_staff, role_config, sessions,
                       outbox, seq, hist, inflight, blobs>>

RemoveStaffRequest(u, user_id, dbOk) ==
    LET r == remove_staff(u, user_id, dbOk, FALSE)
    IN  /\ staff_roles' = r.table
        /\ audit' = r.audit
        /\ reply' = [op |-> "remove_staff",
                     args |-> StaffPosted(u, user_id, 0, dbOk),
                     result |-> r.resp]
        /\ UNCHANGED <<env_admin, env_staff, role_config, sessions,
                       outbox, seq, hist, inflight, blobs>>

StaffLoginStep == \E u \in UserIds, dbOk \in BOOLEAN :
                    Login(u, <<R10>>, dbOk, TRUE)
StaffLogoutStep == \E u \in UserIds : Logout(u)
AddStaffRequestStep == \E u \in UserIds, d \in FormIds, t \in FormTiers, dbOk \in BOOLEAN :
                        AddStaffRequest(u, d, t, dbOk)
RemoveStaffRequestStep == \E u \in UserIds, d \in UserIds, dbOk \in BOOLEAN :
                            RemoveStaffRequest(u, d, dbOk)

NextStaff ==
    \/ StaffLoginStep
    \/ StaffLogoutStep
    \/ AddStaffRequestStep
    \/ RemoveStaffRequestStep

SpecStaff == Init /\ [][NextStaff]_vars

-----------------------------------------------------------------------------
(* db.py: the outbox pending_dashboard_actions.  The sequence `outbox'     *)
(* holds the rows in the order of their created_at (NOW() at the INSERT),  *)
(* oldest first; `seq' is the last value drawn from the SERIAL sequence.   *)

PendingLimit == 50      \* get_pending_actions(limit=50)
HistoryLimit == 30      \* get_action_history(target_id=None, limit=30)

\* Python values for the params argument: None, or a dict given as the set
\* of its <<key, value>> items
NoneParams == [is_none |-> TRUE, items |-> {}]
Dict(items) == [is_none |-> FALSE, items |-> items]

\* "params or {}": None and the empty dict are both falsy
ParamsOrEmpty(params) ==
    IF params.is_none \/ params.items = {} THEN {} ELSE params.items

\* json.dumps of a dict, and the document the JSONB column decodes to
JsonDumps(items) == [json |-> items]
JsonLoads(text) == text.json

\* how the INSERT of queue_action may end: the row is stored; the call
\* fails before a sequence value is drawn; the call fails after one is
QueueOutcomes == {"ok", "error", "error_after_nextval"}

\* variant: params is serialised as given, None included
queue_action_params_raw(rows, s, action_type, target_user_id, staff_id, staff_name, params, outcome) ==
    IF outcome = "ok"
    THEN [outbox |-> Append(rows,
                        [id |-> s + 1, action_type |-> action_type,
                         target_user_id |-> target_user_id,
                         staff_id |-> staff_id, staff_name |-> staff_name,
                         params |-> JsonDumps(IF params.is_none
                                              THEN {<<"null", "null">>}
                                              ELSE params.items),
                         status |-> "pending", result |-> "NULL",
                         executed_at |-> "NULL"]),
          seq |-> s + 1, ret |-> s + 1]
    ELSE [outbox |-> rows,
          seq |-> IF outcome = "error_after_nextval" THEN s + 1 ELSE s,
          ret |-> 0]

\* variant: the INSERT also closes the target's rows that are still pending
queue_action_supersedes(rows, s, action_type, target_user_id, staff_id, staff_name, params, outcome) ==
    IF outcome = "ok"
    THEN [outbox |-> Append(
                        [i \in 1..Len(rows) |->
                            IF /\ rows[i].target_user_id = target_user_id
                               /\ rows[i].status = "pending"
                            THEN [rows[i] EXCEPT !.status = "failed"]
                            ELSE rows[i]],
                        [id |-> s + 1, action_type |-> action_type,
                         target_user_id |-> target_user_id,
                         staff_id |-> staff_id, staff_name |-> staff_name,
                         params |-> JsonDumps(ParamsOrEmpty(params)),
                         status |-> "pending", result |-> "NULL",
                         executed_at |-> "NULL"]),
          seq |-> s + 1, ret |-> s + 1]
    ELSE [outbox |-> rows,
          seq |-> IF outcome = "error_after_nextval" THEN s + 1 ELSE s,
          ret |-> 0]

\* queue_action: INSERT ... RETURNING id with the column defaults, the new
\* id or 0; every exception is swallowed
queue_action(rows, s, action_type, target_user_id, staff_id, staff_name, params, outcome) ==
    IF outcome = "ok"
    THEN [outbox |-> Append(rows,
                        [id |-> s + 1, action_type |-> action_type,
                         target_user_id |-> target_user_id,
                         staff_id |-> staff_id, staff_name |-> staff_name,
                         params |-> JsonDumps(ParamsOrEmpty(params)),
                         status |-> "pending", result |-> "NULL",
                         executed_at |-> "NULL"]),
          seq |-> s + 1, ret |-> s + 1]
    ELSE [outbox |-> rows,
          seq |-> IF outcome = "error_after_nextval" THEN s + 1 ELSE s,
          ret |-> 0]

\* ORDER BY created_at DESC LIMIT limit
OrderDescLimit(rows, limit) ==
    LET n == Len(rows)
        k == IF limit < n THEN limit ELSE n
    IN  [i \in 1..k |-> rows[n - i + 1]]

\* _qall: the rows, or [] when the query raises
_qall(rows, ok) == IF ok THEN rows ELSE <<>>

get_pending_actions(limit, ok) == _qall(OrderDescLimit(outbox, limit), ok)

\* variant: the oldest rows come first (ORDER BY created_at ASC)
get_action_history_oldest_first(target_id, limit, ok) ==
    LET OfTarget(r) == r.target_user_id = target_id
        Oldest(rows) == SubSeq(rows, 1, IF limit < Len(rows) THEN limit
                                                             ELSE Len(rows))
    IN  IF target_id # 0 /\ target_id # NoneId
        THEN _qall(Oldest(SelectSeq(outbox, OfTarget)), ok)
        ELSE _qall(Oldest(outbox), ok)

\* "if target_id:" is false for None and for 0
get_action_history(target_id, limit, ok) ==
    LET OfTarget(r) == r.target_user_id = target_id
    IN  IF target_id # 0 /\ target_id # NoneId
        THEN _qall(OrderDescLimit(SelectSeq(outbox, OfTarget), limit), ok)
        ELSE _qall(OrderDescLimit(outbox, limit), ok)

\* the history after queue_action returned ret for target_user_id
Returning(h, ret, target_user_id) ==
    IF ret = 0 THEN h
    ELSE [h EXCEPT !.returned =
              @ \cup {[id |-> ret, target |-> target_user_id]}]

\* db.queue_action called on the store
QueueAction(req, outcome) ==
    LET q == queue_action(outbox, seq, req.action_type, req.target_user_id,
                          req.staff_id, req.staff_name, req.params, outcome)
    IN  /\ outbox' = q.outbox
        /\ seq' = q.seq
        /\ hist' = Returning(hist, q.ret, req.target_user_id)
        /\ UNCHANGED <<env_admin, env_staff, staff_roles, role_config,
                       sessions, audit, inflight, data>>

\* the bot, a process of its own on the same database: it reports on a
\* pending row by writing status, result and executed_at
BotStatuses == {"executed", "failed"}

BotWriteBack(i, status) ==
    /\ i \in 1..Len(outbox)
    /\ outbox[i].status = "pending"
    /\ outbox' = [outbox EXCEPT ![i] = [@ EXCEPT !.status = status,
                                                 !.result = "text",
                                                 !.executed_at = "NOW"]]
    /\ hist' = [hist EXCEPT !.written = @ \cup {outbox[i].id}]
    /\ UNCHANGED <<env_admin, env_staff, staff_roles, role_config,
                   sessions, seq, audit, inflight, data>>

-----------------------------------------------------------------------------
(* SpecOutbox: the outbox at the storage layer.  queue_action is called    *)
(* with the requests below, interleaved with the bot.                      *)

Requests ==
    { [action_type |-> "ban", target_user_id |-> 55, staff_id |-> 9,
       staff_name |-> "Mod", params |-> Dict({<<"reason", "spam">>})],
      [action_type |-> "warn", target_user_id |-> 55, staff_id |-> 9,
       staff_name |-> "Mod", params |-> NoneParams],
      [action_type |-> "kick", target_user_id |-> 77, staff_id |-> 1,
       staff_name |-> "?", params |-> Dict({})],
      [action_type |-> "warn", target_user_id |-> 0, staff_id |-> 1,
       staff_name |-> "?", params |-> Dict({<<"reason", "">>})] }

\* outcomes explored for an INSERT: a row only while fewer than cap are
\* stored, a lost sequence value only while fewer than MaxBurned are lost
InsertOutcomes(cap) ==
    {o \in QueueOutcomes :
        /\ o = "ok" => Len(outbox) < cap
        /\ o = "error_after_nextval" => seq - Len(outbox) < MaxBurned}

InitOutbox ==
    /\ env_admin = <<>>
    /\ env_staff = <<>>
    /\ staff_roles = {}
    /\ role_config = {}
    /\ sessions = <<>>
    /\ outbox = <<>>
    /\ seq = 0
    /\ audit = <<>>
    /\ hist = NoHistory
    /\ inflight = Idle
    /\ blobs = NoBlobs
    /\ reply = NoReply

QueueActionStep ==
    \E req \in Requests : \E o \in InsertOutcomes(MaxActions) :
        QueueAction(req, o)
BotStep == \E i \in 1..MaxActions + 1, st \in BotStatuses : BotWriteBack(i, st)

NextOutbox ==
    \/ QueueActionStep
    \/ BotStep

SpecOutbox == InitOutbox /\ [][NextOutbox]_vars

-----------------------------------------------------------------------------
(* app.py: the staff-action handlers, as functions from the request to     *)
(* what the handler leaves behind: outbox, sequence, audit log, response   *)
(* and the ID queue_action handed back (which the handlers drop).          *)

KickTier == 2       \* "(staff.get("permission_tier", 0) or 0) < 2"
BanTier == 3        \* "(staff.get("permission_tier", 0) or 0) < 3"

\* staff.get("username", "?"): the name Discord reported at login
StaffName(u) == IF u = 1 THEN "Admin" ELSE "Mod"

Handled(rows, s, log, ret, resp) ==
    [outbox |-> rows, seq |-> s, audit |-> log, ret |-> ret, resp |-> resp]

\* variant: the tier compared is the user's staff_roles row of the moment,
\* when there is one
Gate_reads_staff_roles(u, min_tier) ==
    IF _require_staff(u) THEN "/?error=unauthorized"
    ELSE LET db == is_db_staff(Store, sessions[u].id, TRUE)
             tier == IF db.is_staff THEN db.tier
                     ELSE sessions[u].permission_tier
         IN  IF tier < min_tier THEN "error=insufficient_permissions"
             ELSE "pass"

\* what a handler does first: _require_staff, then the tier comparison of
\* kick and ban (min_tier 0: none); the redirect it returns, or "pass"
Gate(u, min_tier) ==
    IF _require_staff(u) THEN "/?error=unauthorized"
    ELSE IF sessions[u].permission_tier < min_tier
    THEN "error=insufficient_permissions"
    ELSE "pass"

\* variant: outbox insert and audit insert in one transaction, rolled back
\* and reported when the audit insert fails
staff_action_transactional(u, action_type, user_id, min_tier, params, audit_action, qOutcome, auditOk) ==
    IF Gate(u, min_tier) # "pass"
    THEN Handled(outbox, seq, audit, 0, Gate(u, min_tier))
    ELSE IF ~auditOk
    THEN Handled(outbox, seq, audit, 0, "error=db_error")
    ELSE LET q == queue_action(outbox, seq, action_type, user_id,
                               sessions[u].id, StaffName(u), params,
                               qOutcome)
         IN  Handled(q.outbox, q.seq,
                     add_audit(audit, auditOk, sessions[u].id, audit_action,
                               user_id),
                     q.ret, "success=queued")

\* the part the eight handlers share: _require_staff, the tier gate of
\* kick and ban (min_tier 0: none), queue_action, add_audit, redirect
staff_action(u, action_type, user_id, min_tier, params, audit_action, qOutcome, auditOk) ==
    IF Gate(u, min_tier) # "pass"
    THEN Handled(outbox, seq, audit, 0, Gate(u, min_tier))
    ELSE LET q == queue_action(outbox, seq, action_type, user_id,
                               sessions[u].id, StaffName(u), params,
                               qOutcome)
         IN  Handled(q.outbox, q.seq,
                     add_audit(audit, auditOk, sessions[u].id, audit_action,
                               user_id),
                     q.ret, "success=queued")

\* what tells the eight handlers apart: the action type queued, the tier
\* compared with, the params built from the form and the audit action
Details(action_type, min_tier, params, audit_action) ==
    [action_type |-> action_type, min_tier |-> min_tier, params |-> params,
     audit_action |-> audit_action]

Handler(name) ==
    CASE name = "warn" ->
            Details("warn", 0,
                    Dict({<<"category", "spam">>, <<"reason", "">>}),
                    "queued_warn")
      [] name = "timeout" ->
            Details("timeout", 0,
                    Dict({<<"duration_minutes", "10">>, <<"reason", "">>}),
                    "queued_timeout")
      [] name = "kick" ->
            Details("kick", KickTier,
                    Dict({<<"reason", "">>}),
                    "queued_kick")
      [] name = "ban" ->
            Details("ban", BanTier,
                    Dict({<<"reason", "">>}),
                    "queued_ban")
      [] name = "adjust_xp" ->
            Details("add_xp", 0,
                    Dict({<<"amount", "5">>}),
                    "queued_xp_adjust")
      [] name = "adjust_coins" ->
            Details("add_coins", 0,
                    Dict({<<"amount", "5">>, <<"reason", "">>}),
                    "queued_coin_adjust")
      [] name = "set_elo" ->
            Details("set_elo", 0,
                    Dict({<<"elo", "1000">>}),
                    "queued_elo_set")
      [] name = "remove_warn" ->
            Details("remove_warning", 0,
                    Dict({<<"warning_id", "1">>}),
                    "queued_remove_warn")

\* a handler, from its details
staff_action_of(h, u, user_id, qOutcome, auditOk) ==
    staff_action(u, h.action_type, user_id, h.min_tier, h.params,
                 h.audit_action, qOutcome, auditOk)

\* POST /staff/action/warn/{user_id}
staff_action_warn(u, user_id, qOutcome, auditOk) ==
    staff_action_of(Handler("warn"), u, user_id, qOutcome, auditOk)

\* POST /staff/action/timeout/{user_id}
staff_action_timeout(u, user_id, qOutcome, auditOk) ==
    staff_action_of(Handler("timeout"), u, user_id, qOutcome, auditOk)

\* variant: kick is open to every staff member
staff_action_kick_ungated(u, user_id, qOutcome, auditOk) ==
    staff_action_of([Handler("kick") EXCEPT !.min_tier = 0], u, user_id,
                    qOutcome, auditOk)

\* POST /staff/action/kick/{user_id}
staff_action_kick(u, user_id, qOutcome, auditOk) ==
    staff_action_of(Handler("kick"), u, user_id, qOutcome, auditOk)

\* POST /staff/action/ban/{user_id}
staff_action_ban(u, user_id, qOutcome, auditOk) ==
    staff_action_of(Handler("ban"), u, user_id, qOutcome, auditOk)

\* POST /staff/action/adjust_xp/{user_id}
staff_action_xp(u, user_id, qOutcome, auditOk) ==
    staff_action_of(Handler("adjust_xp"), u, user_id, qOutcome, auditOk)

\* POST /staff/action/adjust_coins/{user_id}
staff_action_coins(u, user_id, qOutcome, auditOk) ==
    staff_action_of(Handler("adjust_coins"), u, user_id, qOutcome, auditOk)

\* POST /staff/action/set_elo/{user_id}
staff_action_elo(u, user_id, qOutcome, auditOk) ==
    staff_action_of(Handler("set_elo"), u, user_id, qOutcome, auditOk)

\* POST /staff/action/remove_warn/{user_id}
staff_action_remove_warn(u, user_id, qOutcome, auditOk) ==
    staff_action_of(Handler("remove_warn"), u, user_id, qOutcome, auditOk)

\* db.submit_application: the INSERT into recruitment_applications (given
\* here as the sequence apps), True or False
submit_application(apps, user_id, position_id, ok) ==
    IF ok
    THEN [applications |-> Append(apps, [user_id |-> user_id,
                                         position_id |-> position_id,
                                         status |-> "applied"]),
          ok |-> TRUE]
    ELSE [applications |-> apps, ok |-> FALSE]

\* POST /apply/submit
apply_submit(u, apps, position_id, submitOk, auditOk) ==
    IF ~HasSession(u)
    THEN [applications |-> apps, audit |-> audit, resp |-> "/auth/login"]
    ELSE LET sub == submit_application(apps, sessions[u].id, position_id,
                                       submitOk)
         IN  [applications |-> sub.applications,
              audit |-> IF sub.ok
                        THEN add_audit(audit, auditOk, sessions[u].id,
                                       "submitted_application", position_id)
                        ELSE audit,
              resp |-> "/apply?submitted=1"]

\* the routes /staff/action/<name>/{user_id}
ActionRoutes == {"warn", "timeout", "kick", "ban", "adjust_xp",
                 "adjust_coins", "set_elo", "remove_warn"}

Route(name, u, user_id, qOutcome, auditOk) ==
    CASE name = "warn" -> staff_action_warn(u, user_id, qOutcome, auditOk)
      [] name = "timeout" ->
            staff_action_timeout(u, user_id, qOutcome, auditOk)
      [] name = "kick" -> staff_action_kick(u, user_id, qOutcome, auditOk)
      [] name = "ban" -> staff_action_ban(u, user_id, qOutcome, auditOk)
      [] name = "adjust_xp" -> staff_action_xp(u, user_id, qOutcome, auditOk)
      [] name = "adjust_coins" ->
            staff_action_coins(u, user_id, qOutcome, auditOk)
      [] name = "set_elo" -> staff_action_elo(u, user_id, qOutcome, auditOk)
      [] name = "remove_warn" ->
            staff_action_remove_warn(u, user_id, qOutcome, auditOk)

\* the request served: what the handler left behind becomes the state
Serve(r, user_id) ==
    /\ outbox' = r.outbox
    /\ seq' = r.seq
    /\ audit' = r.audit
    /\ hist' = Returning(hist, r.ret, user_id)
    /\ UNCHANGED <<env_admin, env_staff, staff_roles, role_config, sessions,
                   inflight, data>>

StaffActionWarn(u, user_id, qOutcome, auditOk) ==
    Serve(staff_action_warn(u, user_id, qOutcome, auditOk), user_id)

StaffActionTimeout(u, user_id, qOutcome, auditOk) ==
    Serve(staff_action_timeout(u, user_id, qOutcome, auditOk), user_id)

StaffActionKick(u, user_id, qOutcome, auditOk) ==
    Serve(staff_action_kick(u, user_id, qOutcome, auditOk), user_id)

StaffActionBan(u, user_id, qOutcome, auditOk) ==
    Serve(staff_action_ban(u, user_id, qOutcome, auditOk), user_id)

StaffActionXp(u, user_id, qOutcome, auditOk) ==
    Serve(staff_action_xp(u, user_id, qOutcome, auditOk), user_id)

StaffActionCoins(u, user_id, qOutcome, auditOk) ==
    Serve(staff_action_coins(u, user_id, qOutcome, auditOk), user_id)

StaffActionElo(u, user_id, qOutcome, auditOk) ==
    Serve(staff_action_elo(u, user_id, qOutcome, auditOk), user_id)

StaffActionRemoveWarn(u, user_id, qOutcome, auditOk) ==
    Serve(staff_action_remove_warn(u, user_id, qOutcome, auditOk), user_id)

-----------------------------------------------------------------------------
(* SpecGate: the staff-action requests of one moderator.  STAFF_ROLE_IDS   *)
(* names role 10, no admin is configured, and staff_roles holds nothing or *)
(* the moderator's row at some tier (tables a staff session may leave      *)
(* behind through /staff/settings/add_staff).  The moderator logs in with  *)
(* any of the role lists, so that sessions of every tier come about, and   *)
(* posts actions against one member.                                       *)

Moderator == 2
Member == 55

GateTables == {{}} \cup {{[discord_user_id |-> Moderator,
                           permission_tier |-> t]} : t \in Tiers}

\* outcomes explored at the request layer
GateQueueOutcomes ==
    {o \in {"ok", "error"} : o = "ok" => Len(outbox) < MaxQueued}
GateAuditOutcomes == {ok \in BOOLEAN : ok => Len(audit) < MaxAudit}

InitGate ==
    /\ env_admin = <<>>
    /\ env_staff = <<"1", "0", " ", ",">>
    /\ staff_roles \in GateTables
    /\ role_config = {}
    /\ sessions = <<>>
    /\ outbox = <<>>
    /\ seq = 0
    /\ audit = <<>>
    /\ hist = NoHistory
    /\ inflight = Idle
    /\ blobs = NoBlobs
    /\ reply = NoReply

GateLoginStep == \E rl \in RoleLists, dbOk, roleOk \in BOOLEAN :
    Login(Moderator, rl, dbOk, roleOk)
GateLogoutStep == Logout(Moderator)
WarnStep == \E o \in GateQueueOutcomes, a \in GateAuditOutcomes :
    StaffActionWarn(Moderator, Member, o, a)
TimeoutStep == \E o \in GateQueueOutcomes, a \in GateAuditOutcomes :
    StaffActionTimeout(Moderator, Member, o, a)
KickStep == \E o \in GateQueueOutcomes, a \in GateAuditOutcomes :
    StaffActionKick(Moderator, Member, o, a)
BanStep == \E o \in GateQueueOutcomes, a \in GateAuditOutcomes :
    StaffActionBan(Moderator, Member, o, a)
XpStep == \E o \in GateQueueOutcomes, a \in GateAuditOutcomes :
    StaffActionXp(Moderator, Member, o, a)
CoinsStep == \E o \in GateQueueOutcomes, a \in GateAuditOutcomes :
    StaffActionCoins(Moderator, Member, o, a)
EloStep == \E o \in GateQueueOutcomes, a \in GateAuditOutcomes :
    StaffActionElo(Moderator, Member, o, a)
RemoveWarnStep == \E o \in GateQueueOutcomes, a \in GateAuditOutcomes :
    StaffActionRemoveWarn(Moderator, Member, o, a)

NextGate ==
    \/ GateLoginStep
    \/ GateLogoutStep
    \/ WarnStep
    \/ TimeoutStep
    \/ KickStep
    \/ BanStep
    \/ XpStep
    \/ CoinsStep
    \/ EloStep
    \/ RemoveWarnStep

SpecGate == InitGate /\ [][NextGate]_vars

-----------------------------------------------------------------------------
(* SpecProtocol: a staff-action request statement by statement.  A handler *)
(* awaits queue_action and then add_audit, each on a connection of its own *)
(* outside any transaction, so each INSERT is committed when its call      *)
(* returns; the process may die between two statements.  Logins and        *)
(* logouts go on meanwhile.                                                *)

ProtocolRoutes == {"warn", "kick", "ban"}

\* the handler starts: "if _require_staff(c): return ...", the tier
\* comparison, "staff = c["user"]"
BeginRequest(name, u) ==
    /\ inflight.stage \in {"idle", "crashed"}
    /\ inflight' = IF Gate(u, Handler(name).min_tier) = "pass"
                   THEN [stage |-> "gated", route |-> name,
                         u |-> sessions[u].id, ret |-> 0]
                   ELSE Idle
    /\ UNCHANGED <<env_admin, env_staff, staff_roles, role_config, sessions,
                   outbox, seq, audit, hist, data>>

\* variant: the audit entry is written in the statement that queues
EnqueueStatementAudits(outcome) ==
    /\ inflight.stage = "gated"
    /\ LET h == Handler(inflight.route)
           q == queue_action(outbox, seq, h.action_type, Member, inflight.u,
                             StaffName(inflight.u), h.params, outcome)
       IN  /\ outbox' = q.outbox
           /\ seq' = q.seq
           /\ hist' = Returning(hist, q.ret, Member)
           /\ audit' = add_audit(audit, outcome = "ok", inflight.u,
                                 h.audit_action, Member)
           /\ inflight' = [inflight EXCEPT !.stage = "queued",
                                           !.ret = q.ret]
    /\ UNCHANGED <<env_admin, env_staff, staff_roles, role_config, sessions,
                   data>>

\* "await db.queue_action(...)"
EnqueueStatement(outcome) ==
    /\ inflight.stage = "gated"
    /\ LET h == Handler(inflight.route)
           q == queue_action(outbox, seq, h.action_type, Member, inflight.u,
                             StaffName(inflight.u), h.params, outcome)
       IN  /\ outbox' = q.outbox
           /\ seq' = q.seq
           /\ hist' = Returning(hist, q.ret, Member)
           /\ inflight' = [inflight EXCEPT !.stage = "queued",
                                           !.ret = q.ret]
    /\ UNCHANGED <<env_admin, env_staff, staff_roles, role_config, sessions,
                   audit, data>>

\* "await db.add_audit(...)" and the redirect
AuditStatement(ok) ==
    /\ inflight.stage = "queued"
    /\ audit' = add_audit(audit, ok, inflight.u,
                          Handler(inflight.route).audit_action, Member)
    /\ inflight' = Idle
    /\ UNCHANGED <<env_admin, env_staff, staff_roles, role_config, sessions,
                   outbox, seq, hist, data>>

\* the process dies with the request unfinished
CrashRequest ==
    /\ inflight.stage \in {"gated", "queued"}
    /\ inflight' = [inflight EXCEPT !.stage = "crashed"]
    /\ UNCHANGED <<env_admin, env_staff, staff_roles, role_config, sessions,
                   outbox, seq, audit, hist, data>>

BeginStep == \E name \in ProtocolRoutes : BeginRequest(name, Moderator)
EnqueueStatementStep == \E o \in GateQueueOutcomes : EnqueueStatement(o)
AuditStatementStep == \E a \in GateAuditOutcomes : AuditStatement(a)

NextProtocol ==
    \/ GateLoginStep
    \/ GateLogoutStep
    \/ BeginStep
    \/ EnqueueStatementStep
    \/ AuditStatementStep
    \/ CrashRequest

SpecProtocol == InitGate /\ [][NextProtocol]_vars

-----------------------------------------------------------------------------
(* Reads of the data layer.  A read changes nothing but the reply.         *)

Args(uid, sort_by, limit, offset) ==
    [uid |-> uid, sort_by |-> sort_by, limit |-> limit, offset |-> offset]

Reply(op, args, result) == [op |-> op, args |-> args, result |-> result]

\* everything but the reply
served == <<env_admin, env_staff, staff_roles, role_config, sessions,
            outbox, seq, audit, hist, inflight, blobs>>

\* variant: the record's user_id is written back into the stored profile
GetUser_persists(uid) ==
    /\ reply' = Reply("get_user", Args(uid, "", 0, 0), get_user(uid))
    /\ blobs' = IF get_user(uid).present
                THEN [blobs EXCEPT !.main_data.users =
                        [i \in 1..Len(@) |->
                            IF @[i].key = StrOfInt(uid)
                            THEN [@[i] EXCEPT !.profile =
                                    ("user_id" :> JInt(uid)) @@ @]
                            ELSE @[i]]]
                ELSE blobs
    /\ UNCHANGED <<env_admin, env_staff, staff_roles, role_config, sessions,
                   outbox, seq, audit, hist, inflight>>

GetUser(uid) ==
    /\ reply' = Reply("get_user", Args(uid, "", 0, 0), get_user(uid))
    /\ UNCHANGED served

GetStageRank(uid) ==
    /\ reply' = Reply("get_stage_rank", Args(uid, "", 0, 0),
                      get_stage_rank(uid))
    /\ UNCHANGED served

GetUserWarnings(uid) ==
    /\ reply' = Reply("get_user_warnings", Args(uid, "", 0, 0),
                      get_user_warnings(uid))
    /\ UNCHANGED served

GetAnalytics(now) ==
    /\ reply' = Reply("get_analytics", Args(now, "", 0, 0), get_analytics(now))
    /\ UNCHANGED served

GetLeaderboard(sort_by, limit, offset) ==
    /\ reply' = Reply("get_leaderboard", Args(0, sort_by, limit, offset),
                      get_leaderboard(sort_by, limit, offset))
    /\ UNCHANGED served

GetUserRank(uid, sort_by) ==
    /\ reply' = Reply("get_user_rank", Args(uid, sort_by, 0, 0),
                      get_user_rank(uid, sort_by))
    /\ UNCHANGED served

\* what the reads are asked
ReadIds == {1, 7, 42, 99}
SortInputs == {"xp", "coins", "elo_rating", "user_id"}
Limits == {1, 50}
Offsets == {0, 1}

\* user maps of at most MaxUsers profiles under distinct keys
K1 == <<"1">>
K7 == <<"7">>
K42 == <<"4", "2">>

UserMaps(keys, profiles) ==
    UNION {{m \in [1..k -> [key : keys, profile : profiles]] :
                \A i, j \in 1..k : i # j => m[i].key # m[j].key} :
           k \in 0..MaxUsers}

-----------------------------------------------------------------------------
(* SpecBoard: leaderboard and rank over the user maps and ELO maps below.  *)

BoardProfiles ==
    { <<>>,
      ("xp" :> JInt(5)) @@ ("coins" :> JNull),
      ("xp" :> JInt(7)) @@ ("coins" :> JInt(3)),
      ("xp" :> JNull) @@ ("coins" :> JInt(3)) }

BoardDuels ==
    { NoDuels, DuelsDoc(K1 :> 1200), DuelsDoc((K42 :> 900) @@ (K7 :> 1000)) }

InitBoard ==
    /\ env_admin = <<>>
    /\ env_staff = <<>>
    /\ staff_roles = {}
    /\ role_config = {}
    /\ sessions = <<>>
    /\ outbox = <<>>
    /\ seq = 0
    /\ audit = <<>>
    /\ hist = NoHistory
    /\ inflight = Idle
    /\ \E users \in UserMaps({K1, K7, K42}, BoardProfiles),
          duels \in BoardDuels :
            blobs = [main_data |-> MainDocNoRoster(users),
                     duels_data |-> duels, warnings_data |-> NoWarnings]
    /\ reply = NoReply

GetLeaderboardStep ==
    \E f \in SortInputs, l \in Limits, o \in Offsets : GetLeaderboard(f, l, o)
GetUserRankStep == \E uid \in ReadIds, f \in SortInputs : GetUserRank(uid, f)

NextBoard ==
    \/ GetLeaderboardStep
    \/ GetUserRankStep

SpecBoard == InitBoard /\ [][NextBoard]_vars

-----------------------------------------------------------------------------
(* SpecProfile: get_user and get_stage_rank over the documents below.      *)

ProfileUsers == UserMaps({K1, K42}, {<<>>, ("xp" :> JInt(100))})

Rosters ==
    { <<>>,
      <<JNull, JStr(K42), JNull>>,
      <<JInt(42), JStr(K42)>>,
      <<JStr(K1), JNull, JInt(1)>> }

ProfileMains ==
    {NoMain, EmptyMain}
        \cup {MainDocNoRoster(users) : users \in ProfileUsers}
        \cup {MainDoc(users, roster) : users \in ProfileUsers,
                                       roster \in Rosters}

ProfileDuels ==
    {NoDuels, EmptyDuels, DuelsDocNoElo, DuelsDoc(K1 :> 1200),
     DuelsDoc(K42 :> 900)}

Spam == [category |-> "spam", reason |-> "r", timestamp |-> 1,
         expired |-> FALSE]
Mute == [category |-> "arguing", reason |-> "", timestamp |-> 2,
         expired |-> TRUE]

ProfileWarnings ==
    { NoWarnings, EmptyWarnings,
      WarningsDoc(K1 :> [has_warnings |-> TRUE, warnings |-> <<Spam>>,
                         has_points |-> TRUE, total_points |-> 3]),
      WarningsDoc((K1 :> NoEntry)
                  @@ (K42 :> [has_warnings |-> TRUE,
                              warnings |-> <<Spam, Mute>>,
                              has_points |-> FALSE, total_points |-> 0])) }

InitProfile ==
    /\ env_admin = <<>>
    /\ env_staff = <<>>
    /\ staff_roles = {}
    /\ role_config = {}
    /\ sessions = <<>>
    /\ outbox = <<>>
    /\ seq = 0
    /\ audit = <<>>
    /\ hist = NoHistory
    /\ inflight = Idle
    /\ \E main \in ProfileMains, duels \in ProfileDuels,
          warnings \in ProfileWarnings :
            blobs = [main_data |-> main, duels_data |-> duels,
                     warnings_data |-> warnings]
    /\ reply = NoReply

GetUserStep == \E uid \in ReadIds : GetUser(uid)
GetStageRankStep == \E uid \in ReadIds : GetStageRank(uid)
GetUserWarningsStep == \E uid \in ReadIds : GetUserWarnings(uid)

NextProfile ==
    \/ GetUserStep
    \/ GetStageRankStep
    \/ GetUserWarningsStep

SpecProfile == InitProfile /\ [][NextProfile]_vars

-----------------------------------------------------------------------------
(* SpecAnalytics: get_analytics over user maps whose profiles carry the    *)
(* last_active values below, at the instants of Nows.                      *)

Text(t) == JStr(<<t>>)

LastActives ==
    { <<>>,
      ("last_active" :> JNull),
      ("last_active" :> Text("")),
      ("last_active" :> Text("yesterday")),
      ("last_active" :> JInt(1700000000)),
      ("last_active" :> Text("2026-11-05T06:00:00+00:00")),
      ("last_active" :> Text("2026-11-04T12:00:00Z")),
      ("last_active" :> Text("2026-10-30T12:00:00")),
      ("last_active" :> Text("2026-10-29T12:00:00+00:00")),
      ("last_active" :> Text("2026-10-06T12:00:00+00:00")),
      ("last_active" :> Text("2026-11-05T13:00:00+02:00")) }

\* 2026-11-05T12:00:00+00:00, 2026-11-05T12:30:00+00:00 and
\* 2026-11-06T00:00:00+00:00
Nows == {3067200, 3069000, 3110400}

InitAnalytics ==
    /\ env_admin = <<>>
    /\ env_staff = <<>>
    /\ staff_roles = {}
    /\ role_config = {}
    /\ sessions = <<>>
    /\ outbox = <<>>
    /\ seq = 0
    /\ audit = <<>>
    /\ hist = NoHistory
    /\ inflight = Idle
    /\ \E users \in UserMaps({K1, K7, K42}, LastActives) :
            blobs = [main_data |-> IF users = <<>> THEN EmptyMain
                                  ELSE MainDocNoRoster(users),
                     duels_data |-> NoDuels, warnings_data |-> NoWarnings]
    /\ reply = NoReply

GetAnalyticsStep == \E now \in Nows : GetAnalytics(now)

NextAnalytics == GetAnalyticsStep

SpecAnalytics == InitAnalytics /\ [][NextAnalytics]_vars

-----------------------------------------------------------------------------
(* SpecFaults: the readers over documents in every form, and the outbox    *)
(* read with its query failing.  A reader raises where it calls ".get" on  *)
(* what a loader returned and that is no dict; nothing in db.py catches    *)
(* it.                                                                     *)

\* get_user: _users(), then for a user it finds _duels(), _warnings() and
\* get_stage_rank
get_user_raises(user_id) ==
    IF GetRaises(_main) THEN TRUE
    ELSE /\ get_user(user_id).present
         /\ GetRaises(_duels) \/ GetRaises(_warnings)

get_stage_rank_raises == GetRaises(_main)

get_leaderboard_raises == GetRaises(_main) \/ GetRaises(_duels)

\* get_user_rank: _users(), and _duels() for "elo_rating" of a user found
get_user_rank_raises(user_id, sort_by) ==
    IF GetRaises(_main) THEN TRUE
    ELSE /\ StrOfInt(user_id) \in UserKeys(_users)
         /\ sort_by = "elo_rating"
         /\ GetRaises(_duels)

get_user_warnings_raises == GetRaises(_warnings)

\* get_analytics: _users(), and _duels() in get_elo_distribution
get_analytics_raises == GetRaises(_main) \/ GetRaises(_duels)

\* what the caller of a reader gets: the exception, or the value returned
Outcome(op, args, raises, value) ==
    [op |-> op, args |-> args, raised |-> raises,
     result |-> IF raises THEN <<>> ELSE value]

TryGetUser(uid) ==
    /\ reply' = Outcome("get_user", Args(uid, "", 0, 0), get_user_raises(uid), get_user(uid))
    /\ UNCHANGED served
TryGetStageRank(uid) ==
    /\ reply' = Outcome("get_stage_rank", Args(uid, "", 0, 0), get_stage_rank_raises, get_stage_rank(uid))
    /\ UNCHANGED served
TryGetLeaderboard(sort_by) ==
    /\ reply' = Outcome("get_leaderboard", Args(0, sort_by, 50, 0), get_leaderboard_raises, get_leaderboard(sort_by, 50, 0))
    /\ UNCHANGED served
TryGetUserRank(uid, sort_by) ==
    /\ reply' = Outcome("get_user_rank", Args(uid, sort_by, 0, 0), get_user_rank_raises(uid, sort_by), get_user_rank(uid, sort_by))
    /\ UNCHANGED served
TryGetUserWarnings(uid) ==
    /\ reply' = Outcome("get_user_warnings", Args(uid, "", 0, 0), get_user_warnings_raises, get_user_warnings(uid))
    /\ UNCHANGED served
TryGetAnalytics(now) ==
    /\ reply' = Outcome("get_analytics", Args(now, "", 0, 0), get_analytics_raises, get_analytics(now))
    /\ UNCHANGED served
TryGetPendingActions(ok) ==
    /\ reply' = Outcome("get_pending_actions", [ok |-> ok], FALSE, get_pending_actions(PendingLimit, ok))
    /\ UNCHANGED served

Forms == {"list", "text", "error"}

FaultMains ==
    {NoMain, EmptyMain,
     MainDoc(<<[key |-> K1, profile |-> ("xp" :> JInt(100))]>>, <<JStr(K1)>>)}
        \cup {InForm(NoMain, f) : f \in Forms}
FaultDuels ==
    {NoDuels, EmptyDuels, DuelsDoc(K1 :> 1200)}
        \cup {InForm(NoDuels, f) : f \in Forms}
FaultWarnings ==
    {NoWarnings, EmptyWarnings,
     WarningsDoc(K1 :> [has_warnings |-> TRUE, warnings |-> <<Spam>>,
                        has_points |-> TRUE, total_points |-> 3])}
        \cup {InForm(NoWarnings, f) : f \in Forms}

InitFaults ==
    /\ env_admin = <<>>
    /\ env_staff = <<>>
    /\ staff_roles = {}
    /\ role_config = {}
    /\ sessions = <<>>
    /\ outbox = <<>>
    /\ seq = 0
    /\ audit = <<>>
    /\ hist = NoHistory
    /\ inflight = Idle
    /\ \E m \in FaultMains, d \in FaultDuels, w \in FaultWarnings :
            blobs = [main_data |-> m, duels_data |-> d, warnings_data |-> w]
    /\ reply = NoReply

TryGetUserStep == \E uid \in {1, 99} : TryGetUser(uid)
TryGetStageRankStep == TryGetStageRank(1)
TryGetLeaderboardStep == TryGetLeaderboard("xp")
TryGetUserRankStep == \E f \in {"xp", "elo_rating"} : TryGetUserRank(1, f)
TryGetUserWarningsStep == TryGetUserWarnings(1)
TryGetAnalyticsStep == TryGetAnalytics(3067200)
TryGetPendingActionsStep == \E ok \in BOOLEAN : TryGetPendingActions(ok)
FaultQueueStep == \E req \in {r \in Requests : r.action_type = "ban"} : Len(outbox) < MaxQueued /\ QueueAction(req, "ok")

NextFaults ==
    \/ TryGetUserStep
    \/ TryGetStageRankStep
    \/ TryGetLeaderboardStep
    \/ TryGetUserRankStep
    \/ TryGetUserWarningsStep
    \/ TryGetAnalyticsStep
    \/ TryGetPendingActionsStep
    \/ FaultQueueStep

SpecFaults == InitFaults /\ [][NextFaults]_vars

-----------------------------------------------------------------------------
(* SpecPool: requests served concurrently over a pool of PoolSize          *)
(* connections.  A database operation is a sequence of logical calls,      *)
(* each "async with self.pool.acquire() as conn": it waits for a           *)
(* connection, runs its statements on it and gives it back, on an          *)
(* exception as well.  inflight maps each worker to the operation it is    *)
(* in, the calls still to make, its position and the connections it holds. *)

Workers == 1..MaxWorkers

\* the logical calls of an operation: get_user reads _users, _duels,
\* _warnings and, in get_stage_rank, _main; queue_action is one call; a
\* staff-action handler calls queue_action, then add_audit
CallsOf(op) ==
    CASE op = "get_user" -> <<"_blob", "_blob", "_blob", "_blob">>
      [] op = "queue_action" -> <<"queue_action">>
      [] op = "staff_action" -> <<"queue_action", "add_audit">>

PoolOps == {"get_user", "queue_action", "staff_action"}

Resting == [op |-> "", calls |-> <<>>, pc |-> "idle", holds |-> 0]

InUse == Cardinality({w \in Workers : inflight[w].holds > 0})

pooled == <<env_admin, env_staff, staff_roles, role_config, sessions, outbox, seq, audit, hist, blobs, reply>>

BeginOp(w, op) ==
    /\ inflight[w].pc = "idle"
    /\ inflight' = [inflight EXCEPT ![w] = [op |-> op, calls |-> CallsOf(op), pc |-> "acquire", holds |-> 0]]
    /\ UNCHANGED pooled

\* pool.acquire(): waits while every connection is out
AcquireConn(w) ==
    /\ inflight[w].pc = "acquire"
    /\ InUse < PoolSize
    /\ inflight' = [inflight EXCEPT ![w].pc = "run", ![w].holds = @ + 1]
    /\ UNCHANGED pooled

\* variant: an exception in the block leaves the connection out
ReleaseConn_leaks_on_error(w, ok) ==
    /\ inflight[w].pc = "run"
    /\ inflight' = [inflight EXCEPT
            ![w].holds = IF ok THEN @ - 1 ELSE @,
            ![w].calls = Tail(@),
            ![w].pc = IF Len(inflight[w].calls) = 1 THEN "return"
                      ELSE "acquire"]
    /\ UNCHANGED pooled

\* the end of the "async with" block, reached by its last statement or by
\* an exception: the connection goes back, and the operation makes its
\* next call or returns
ReleaseConn(w, ok) ==
    /\ inflight[w].pc = "run"
    /\ inflight' = [inflight EXCEPT
            ![w].holds = @ - 1,
            ![w].calls = Tail(@),
            ![w].pc = IF Len(inflight[w].calls) = 1 THEN "return"
                      ELSE "acquire"]
    /\ UNCHANGED pooled

ReturnOp(w) ==
    /\ inflight[w].pc = "return"
    /\ inflight' = [inflight EXCEPT ![w] = [Resting EXCEPT !.holds = inflight[w].holds]]
    /\ UNCHANGED pooled

InitPool ==
    /\ env_admin = <<>>
    /\ env_staff = <<>>
    /\ staff_roles = {}
    /\ role_config = {}
    /\ sessions = <<>>
    /\ outbox = <<>>
    /\ seq = 0
    /\ audit = <<>>
    /\ hist = NoHistory
    /\ inflight = [w \in Workers |-> Resting]
    /\ blobs = NoBlobs
    /\ reply = NoReply

BeginOpStep == \E w \in Workers, op \in PoolOps : BeginOp(w, op)
AcquireConnStep == \E w \in Workers : AcquireConn(w)
ReleaseConnStep == \E w \in Workers, ok \in BOOLEAN : ReleaseConn(w, ok)
ReturnOpStep == \E w \in Workers : ReturnOp(w)

NextPool ==
    \/ BeginOpStep
    \/ AcquireConnStep
    \/ ReleaseConnStep
    \/ ReturnOpStep

\* a block that holds a connection ends (command_timeout bounds every
\* statement), and the pool serves its waiters in the order they came
PoolFairness ==
    \A w \in Workers :
        /\ SF_vars(AcquireConn(w))
        /\ WF_vars(\E ok \in BOOLEAN : ReleaseConn(w, ok))
        /\ WF_vars(ReturnOp(w))

SpecPool == InitPool /\ [][NextPool]_vars /\ PoolFairness

-----------------------------------------------------------------------------
(* SpecStore: the dashboard's operations interleaved with the bot, which   *)
(* alone writes json_data.                                                 *)

\* the bot replaces the document of one key
BotWritesBlob(key, doc) ==
    /\ blobs' = [blobs EXCEPT ![key] = doc]
    /\ UNCHANGED <<env_admin, env_staff, staff_roles, role_config, sessions,
                   outbox, seq, audit, hist, inflight, reply>>

StoreUsers ==
    { <<[key |-> K1, profile |-> ("xp" :> JInt(100))]>>,
      <<[key |-> K1, profile |-> ("xp" :> JInt(5))],
        [key |-> K42, profile |-> ("last_active" :> Text("yesterday"))]>> }

BotDocs ==
    [main_data |-> {MainDoc(users, roster) :
                        users \in StoreUsers,
                        roster \in {<<JStr(K1)>>, <<JNull, JInt(1)>>}},
     duels_data |-> {DuelsDoc(K1 :> 1200), DuelsDoc(K1 :> 900)},
     warnings_data |-> {WarningsDoc(K1 :> [has_warnings |-> TRUE,
                                          warnings |-> <<Spam>>,
                                          has_points |-> TRUE,
                                          total_points |-> 3])}]

BlobKeys == {"main_data", "duels_data", "warnings_data"}

InitStore ==
    /\ env_admin = <<>>
    /\ env_staff = <<"1", "0", " ", ",">>
    /\ staff_roles = {}
    /\ role_config = {}
    /\ sessions = <<>>
    /\ outbox = <<>>
    /\ seq = 0
    /\ audit = <<>>
    /\ hist = NoHistory
    /\ inflight = Idle
    /\ blobs = NoBlobs
    /\ reply = NoReply

BotWritesBlobStep == \E key \in BlobKeys : \E doc \in BotDocs[key] : BotWritesBlob(key, doc)
StoreLoginStep == Login(Moderator, <<R10>>, TRUE, TRUE)
StoreGetUserStep == \E uid \in {1, 99} : GetUser(uid)
StoreGetLeaderboardStep == GetLeaderboard("xp", 50, 0)
StoreGetAnalyticsStep == GetAnalytics(3067200)

NextStore ==
    \/ BotWritesBlobStep
    \/ StoreLoginStep
    \/ StoreGetUserStep
    \/ StoreGetLeaderboardStep
    \/ StoreGetAnalyticsStep
    \/ WarnStep

SpecStore == InitStore /\ [][NextStore]_vars

-----------------------------------------------------------------------------
(* SpecView: get_user statement by statement, each await a step of its     *)
(* own, with the bot writing between them.  inflight holds the record      *)
(* being built; its "seen" is history: the store at the first read, the    *)
(* document each read was served from, and whether every read found the    *)
(* store as the first did.                                                 *)

Seen(first, main, duels, warnings, roster, quiet) == [first |-> first, users_from |-> main, duels_from |-> duels, warnings_from |-> warnings, roster_from |-> roster, quiet |-> quiet]

ViewReply(uid, result, seen) ==
    [op |-> "get_user", args |-> Args(uid, "", 0, 0), result |-> result,
     seen |-> seen]

viewed == <<env_admin, env_staff, staff_roles, role_config, sessions, outbox, seq, audit, hist, blobs>>

\* "users = await self._users()", "u = users.get(str(user_id))",
\* "if not u: return None", "u["user_id"] = user_id"
ReadUsers(uid) ==
    LET key == StrOfInt(uid)
        seen == Seen(blobs, blobs.main_data, NoDuels, NoWarnings, NoMain, TRUE)
    IN  /\ inflight = Idle
        /\ IF key \notin UserKeys(_users) \/ DOMAIN ProfileOf(_users, key) = {}
           THEN /\ reply' = ViewReply(uid, NoUser, seen)
                /\ UNCHANGED inflight
           ELSE /\ inflight' = [stage |-> "duels", uid |-> uid,
                                acc |-> [NoUser EXCEPT
                                            !.present = TRUE,
                                            !.fields = ProfileOf(_users, key),
                                            !.user_id = uid],
                                seen |-> seen]
                /\ UNCHANGED reply
        /\ UNCHANGED viewed

\* variant: the ELO of the record returned last is served again
ReadDuels_cached ==
    /\ inflight.stage = "duels"
    /\ inflight' = [inflight EXCEPT
            !.stage = "warnings",
            !.acc.elo_rating = IF reply.op = "get_user" /\ reply.result.present
                               THEN reply.result.elo_rating
                               ELSE EloOf(StrOfInt(inflight.uid)),
            !.seen.duels_from = blobs.duels_data,
            !.seen.quiet = @ /\ blobs = inflight.seen.first]
    /\ UNCHANGED reply
    /\ UNCHANGED viewed

\* "duels = await self._duels()", "u["elo_rating"] = ..."
ReadDuels ==
    /\ inflight.stage = "duels"
    /\ inflight' = [inflight EXCEPT
            !.stage = "warnings",
            !.acc.elo_rating = EloOf(StrOfInt(inflight.uid)),
            !.seen.duels_from = blobs.duels_data,
            !.seen.quiet = @ /\ blobs = inflight.seen.first]
    /\ UNCHANGED reply
    /\ UNCHANGED viewed

\* "wu = (await self._warnings())...", "u["warnings"] = ...",
\* "u["warning_points"] = ..."
ReadWarnings ==
    LET wu == WarningEntry(StrOfInt(inflight.uid))
    IN  /\ inflight.stage = "warnings"
        /\ inflight' = [inflight EXCEPT
                !.stage = "stage_rank",
                !.acc.warnings = IF wu.has_warnings THEN wu.warnings ELSE <<>>,
                !.acc.warning_points = IF wu.has_points THEN wu.total_points
                                       ELSE 0,
                !.seen.warnings_from = blobs.warnings_data,
                !.seen.quiet = @ /\ blobs = inflight.seen.first]
        /\ UNCHANGED reply
        /\ UNCHANGED viewed

\* "u["stage_rank"] = await self.get_stage_rank(user_id)" and the return
ReadStageRank ==
    /\ inflight.stage = "stage_rank"
    /\ reply' = ViewReply(inflight.uid,
                          [inflight.acc EXCEPT
                                !.stage_rank = get_stage_rank(inflight.uid)],
                          [inflight.seen EXCEPT
                                !.roster_from = blobs.main_data,
                                !.quiet = @ /\ blobs = inflight.seen.first])
    /\ inflight' = Idle
    /\ UNCHANGED viewed

ViewDocs ==
    [main_data |-> {MainDoc(<<[key |-> K1, profile |-> ("xp" :> JInt(100))]>>,
                            <<JStr(K1)>>),
                    MainDoc(<<[key |-> K1, profile |-> ("xp" :> JInt(5))]>>,
                            <<JNull, JInt(1)>>)},
     duels_data |-> {DuelsDoc(K1 :> 1200), DuelsDoc(K1 :> 900)},
     warnings_data |-> {WarningsDoc(<<>>),
                        WarningsDoc(K1 :> [has_warnings |-> TRUE,
                                           warnings |-> <<Spam>>,
                                           has_points |-> TRUE,
                                           total_points |-> 3])}]

InitView ==
    /\ env_admin = <<>>
    /\ env_staff = <<>>
    /\ staff_roles = {}
    /\ role_config = {}
    /\ sessions = <<>>
    /\ outbox = <<>>
    /\ seq = 0
    /\ audit = <<>>
    /\ hist = NoHistory
    /\ inflight = Idle
    /\ \E m \in ViewDocs.main_data, d \in ViewDocs.duels_data, w \in ViewDocs.warnings_data :
            blobs = [main_data |-> m, duels_data |-> d, warnings_data |-> w]
    /\ reply = NoReply

ReadUsersStep == \E uid \in {1, 99} : ReadUsers(uid)
ViewBotStep == \E key \in BlobKeys : \E doc \in ViewDocs[key] : BotWritesBlob(key, doc)

NextView ==
    \/ ReadUsersStep
    \/ ReadDuels
    \/ ReadWarnings
    \/ ReadStageRank
    \/ ViewBotStep

SpecView == InitView /\ [][NextView]_vars

-----------------------------------------------------------------------------
(* The four sources of staff authority, read off the configuration and     *)
(* the tables' contents.                                                   *)

AdminSet(S) == get_admin_user_ids(S.env_admin)

StaffRows(S, u) == {r \in S.staff_roles : r.discord_user_id = u}

AllNumeric(role_ids) == \A i \in 1..Len(role_ids) : IntParses(role_ids[i])

NumericIds(role_ids) ==
    {IntOf(role_ids[i]) : i \in {j \in 1..Len(role_ids) : IntParses(role_ids[j])}}

\* role_config rows matching any of the user's role IDs
RoleRows(S, role_ids) ==
    {r \in S.role_config : r.discord_role_id \in NumericIds(role_ids)}

EnvOverlap(S, role_ids) ==
    (Range(role_ids) \cap get_staff_role_ids(S.env_staff)) # {}

\* tiers contributed by the triggered sources; dbUse / roleUse say whether
\* the staff_roles / role_config source is taken into account
Contributions(S, u, role_ids, dbUse, roleUse) ==
    (IF u \in AdminSet(S) THEN {3} ELSE {})
        \cup (IF dbUse THEN {r.permission_tier : r \in StaffRows(S, u)} ELSE {})
        \cup (IF roleUse
              THEN {r.permission_tier : r \in RoleRows(S, role_ids)} ELSE {})

AnyTriggered(S, u, role_ids, dbUse, roleUse) ==
    \/ u \in AdminSet(S)
    \/ dbUse /\ StaffRows(S, u) # {}
    \/ roleUse /\ RoleRows(S, role_ids) # {}
    \/ EnvOverlap(S, role_ids)

Expected(S, u, role_ids, dbUse, roleUse) ==
    [id |-> u,
     is_staff |-> AnyTriggered(S, u, role_ids, dbUse, roleUse),
     permission_tier |->
        Max({0} \cup Contributions(S, u, role_ids, dbUse, roleUse))]

Resolve(S, u, role_ids) == Callback(S, u, role_ids, TRUE, TRUE).session

\* the cookie u holds is what a login of u with role_ids yields now
FreshSession(u, role_ids, dbOk, roleOk) ==
    /\ u \in DOMAIN sessions
    /\ sessions[u] = Callback(Store, u, role_ids, dbOk, roleOk).session

-----------------------------------------------------------------------------
(* C1 (as stated): for every user ID, role-ID list and contents of the     *)
(* admin set, staff_roles and role_config, the resolved tier is the        *)
(* maximum over the triggered sources (admin 3, the staff_roles row's      *)
(* tier, the maximum tier among the role_config rows matching any of the   *)
(* user's role IDs), and is_staff holds exactly when one of the four       *)
(* sources triggered; (false, 0) when none does.                           *)
C1_ResolutionIsMaxOfSources_AsStated ==
    \A u \in UserIds, rl \in RoleLists :
        Resolve(Store, u, rl) = Expected(Store, u, rl, TRUE, TRUE)

(* C1 (amended): the same, with role_config counted as a source only when  *)
(* every role ID of the list is numeric; with a non-numeric ID in the list *)
(* the role_config source does not trigger, whatever rows match the other  *)
(* IDs.                                                                    *)
C1_ResolutionIsMaxOfSources ==
    \A u \in UserIds, rl \in RoleLists :
        Resolve(Store, u, rl) = Expected(Store, u, rl, TRUE, AllNumeric(rl))

\* a non-admin was logged in with a staff_roles row and two matching
\* role_config rows, one of them above the row's tier
C1_Witness ==
    \E u \in UserIds \ AdminSet(Store), rl \in RoleLists :
        /\ FreshSession(u, rl, TRUE, TRUE)
        /\ AllNumeric(rl)
        /\ StaffRows(Store, u) # {}
        /\ Cardinality(RoleRows(Store, rl)) = 2
        /\ \A r \in StaffRows(Store, u) :
                sessions[u].permission_tier > r.permission_tier

-----------------------------------------------------------------------------
(* C2: when the user's role IDs overlap STAFF_ROLE_IDS and no other source *)
(* matches, the login yields is_staff = true with a tier of at least 2.    *)
EnvOnly(S, u, role_ids) ==
    /\ EnvOverlap(S, role_ids)
    /\ u \notin AdminSet(S)
    /\ StaffRows(S, u) = {}
    /\ RoleRows(S, role_ids) = {}

C2_EnvFallbackGivesTierTwo ==
    \A u \in UserIds, rl \in RoleLists :
        (FreshSession(u, rl, TRUE, TRUE) /\ EnvOnly(Store, u, rl))
            => (sessions[u].is_staff /\ sessions[u].permission_tier >= 2)

-----------------------------------------------------------------------------
(* C3: for a fixed user and role-ID list, adding an entry to one source    *)
(* (admin set, staff_roles, role_config, STAFF_ROLE_IDS) and leaving the   *)
(* others as they are never lowers the tier and never turns is_staff from  *)
(* true to false.                                                          *)
EnvEntries == {<<"1">>, <<"2">>, R10, R11}

OneMoreEntry(S) ==
    {[S EXCEPT !.staff_roles = @ \cup {[discord_user_id |-> x,
                                        permission_tier |-> t]}] :
        x \in {y \in UserIds : StaffRows(S, y) = {}}, t \in Tiers}
    \cup
    {[S EXCEPT !.role_config = @ \cup {[discord_role_id |-> x,
                                        permission_tier |-> t]}] :
        x \in {y \in PathRoleIds :
                \A r \in S.role_config : r.discord_role_id # y}, t \in Tiers}
    \cup {[S EXCEPT !.env_admin = @ \o <<",">> \o e] : e \in EnvEntries}
    \cup {[S EXCEPT !.env_staff = @ \o <<",">> \o e] : e \in EnvEntries}

C3_TierMonotonicInSources ==
    \A u \in UserIds, rl \in RoleLists :
        \A T \in OneMoreEntry(Store) :
            LET before == Resolve(Store, u, rl)
                after == Resolve(T, u, rl)
            IN  /\ after.permission_tier >= before.permission_tier
                /\ before.is_staff => after.is_staff

\* somebody holds a cookie from before an entry was added to staff_roles
\* or role_config that now gives them more
C3_Witness ==
    \E u \in DOMAIN sessions, rl \in RoleLists :
        /\ sessions[u].is_staff
        /\ StaffRows(Store, u) # {} \/ RoleRows(Store, rl) # {}
        /\ Resolve(Store, u, rl).permission_tier > sessions[u].permission_tier

-----------------------------------------------------------------------------
(* C4: a user in the admin set resolves to (true, 3), whatever staff_roles *)
(* and role_config hold after any sequence of add_staff / remove_staff /   *)
(* add_role / remove_role and whatever roles the user has.                 *)
C4_AdminOverride ==
    \A u \in AdminSet(Store), rl \in RoleLists, dbOk, roleOk \in BOOLEAN :
        LET c == Callback(Store, u, rl, dbOk, roleOk)
        IN  /\ ~c.exc
            /\ c.session.is_staff
            /\ c.session.permission_tier = 3

\* an admin logged in while holding a lower staff_roles row, role_config
\* being populated too
C4_Witness ==
    \E u \in AdminSet(Store) \cap DOMAIN sessions :
        /\ \E r \in StaffRows(Store, u) : r.permission_tier < 3
        /\ role_config # {}
        /\ \E rl \in RoleLists : RoleRows(Store, rl) # {}
                                    /\ FreshSession(u, rl, TRUE, TRUE)
        /\ sessions[u].permission_tier = 3

-----------------------------------------------------------------------------
(* C5: a missing or unusable source never errors and never grants staff:   *)
(* with ADMIN_USER_IDS or STAFF_ROLE_IDS empty, an empty role list, a      *)
(* storage failure in is_db_staff or check_role_permissions, or a          *)
(* non-numeric role ID, the affected lookup gives (false, 0) without       *)
(* raising and the resolution goes on with the remaining sources.          *)
C5_UnusableSourceGrantsNothing ==
    \A u \in UserIds, rl \in RoleLists, dbOk, roleOk \in BOOLEAN :
        /\ env_admin = <<>> => AdminSet(Store) = {}
        /\ env_staff = <<>> => get_staff_role_ids(env_staff) = {}
        /\ (env_admin = <<>> /\ env_staff = <<>>)
                => ~check_is_staff(Store, u, rl)
        /\ ~dbOk => is_db_staff(Store, u, dbOk) = Returned(FALSE, 0)
        /\ (rl = <<>> \/ ~roleOk \/ ~AllNumeric(rl))
                => check_role_permissions(Store, rl, roleOk)
                        = Returned(FALSE, 0)
        /\ LET c == Callback(Store, u, rl, dbOk, roleOk)
           IN  /\ ~c.exc
               /\ c.session = Expected(Store, u, rl, dbOk,
                                       roleOk /\ AllNumeric(rl))

\* a user with a staff_roles row and a mapped role was logged in while
\* staff_roles could not be read and the role list held a non-numeric ID
C5_Witness ==
    \E u \in UserIds \ AdminSet(Store), rl \in RoleLists :
        /\ ~AllNumeric(rl)
        /\ RoleRows(Store, rl) # {}
        /\ StaffRows(Store, u) # {}
        /\ FreshSession(u, rl, FALSE, TRUE)
        /\ sessions[u].permission_tier = 0

-----------------------------------------------------------------------------
(* C6 (as stated): a staff_roles entry overrides any auto-role mapping:    *)
(* for a non-admin user with a staff_roles row of tier t who holds a role  *)
(* mapped in role_config to another tier, the resolved tier is t.          *)
MappedElsewhere(S, u, rl, t) ==
    /\ AllNumeric(rl)
    /\ RoleRows(S, rl) # {}
    /\ \A r \in RoleRows(S, rl) : r.permission_tier # t

-----------------------------------------------------------------------------
(* C7: in every state reached by staff-action requests, whichever request  *)
(* is served next: if its session fails the gate of its route (no session, *)
(* not staff, or a tier below 2 for kick, below 3 for ban) the outbox      *)
(* stays as it is and no ID is handed out; and if the outbox changes, one  *)
(* row was appended, of the route's type, carrying the ID of the           *)
(* requesting session, which is staff and has the tier the type asks for.  *)
(* Every row of the outbox entered it this way.                            *)
RequiredTier(action_type) ==
    CASE action_type = "kick" -> 2
      [] action_type = "ban" -> 3
      [] OTHER -> 0

RouteType(name) ==
    CASE name = "adjust_xp" -> "add_xp"
      [] name = "adjust_coins" -> "add_coins"
      [] name = "remove_warn" -> "remove_warning"
      [] OTHER -> name

GatePasses(u, action_type) ==
    /\ HasSession(u)
    /\ sessions[u].is_staff
    /\ sessions[u].permission_tier >= RequiredTier(action_type)

AppendedGatedRow(rows, name, u) ==
    /\ Len(rows) = Len(outbox) + 1
    /\ SubSeq(rows, 1, Len(outbox)) = outbox
    /\ rows[Len(rows)].action_type = RouteType(name)
    /\ rows[Len(rows)].target_user_id = Member
    /\ rows[Len(rows)].staff_id = u
    /\ GatePasses(rows[Len(rows)].staff_id, rows[Len(rows)].action_type)

C7_OutboxGating ==
    \A name \in ActionRoutes, u \in UserIds, o \in {"ok", "error"},
       a \in BOOLEAN :
        LET r == Route(name, u, Member, o, a)
        IN  /\ ~GatePasses(u, RouteType(name)) =>
                    r.outbox = outbox /\ r.ret = 0
            /\ r.outbox # outbox => AppendedGatedRow(r.outbox, name, u)

\* a tier-2 moderator has queued a kick, and a ban from the same session
\* would be turned away
C7_Witness ==
    /\ Len(outbox) = 1
    /\ outbox[1].action_type = "kick"
    /\ outbox[1].staff_id = Moderator
    /\ Len(audit) = 1
    /\ audit[1].action = "queued_kick"
    /\ HasSession(Moderator)
    /\ sessions[Moderator].permission_tier = 2
    /\ ~GatePasses(Moderator, "ban")

-----------------------------------------------------------------------------
(* C8 (as stated): for every ID queue_action has returned for a target,    *)
(* get_action_history(target) and get_pending_actions(), with their limits *)
(* of 30 and 50, each contain the row with that ID, that target and status *)
(* 'pending', whatever enqueues and bot write-backs have run since.        *)
ReadHas(read, id, target, statuses) ==
    \E i \in 1..Len(read) :
        /\ read[i].id = id
        /\ read[i].target_user_id = target
        /\ read[i].status \in statuses

C8_ReadBackAfterEnqueue_AsStated ==
    \A r \in hist.returned :
        /\ ReadHas(get_action_history(r.target, HistoryLimit, TRUE),
                   r.id, r.target, {"pending"})
        /\ ReadHas(get_pending_actions(PendingLimit, TRUE),
                   r.id, r.target, {"pending"})

(* C8 (amended): for every ID queue_action has returned for a target, a    *)
(* get_action_history(target, limit) and a get_pending_actions(limit) that *)
(* succeed each contain the row with that ID and that target, provided     *)
(* fewer than limit rows (for get_action_history with a non-zero target:   *)
(* rows of that target) were enqueued after it; the row's status is        *)
(* 'pending' as long as the bot has not written back to it, and            *)
(* 'executed' or 'failed' afterwards.                                      *)
ReadLimits == {1, 2, HistoryLimit, PendingLimit}

PositionOf(id) == CHOOSE p \in 1..Len(outbox) : outbox[p].id = id

NewerRows(id) == {j \in 1..Len(outbox) : j > PositionOf(id)}

NewerRowsOf(id, target) ==
    {j \in NewerRows(id) : target = 0 \/ outbox[j].target_user_id = target}

StatusesNow(id) ==
    IF id \in hist.written THEN BotStatuses ELSE {"pending"}

C8_ReadBackAfterEnqueue ==
    \A r \in hist.returned :
        /\ \E p \in 1..Len(outbox) : outbox[p].id = r.id
        /\ \A limit \in ReadLimits :
            /\ Cardinality(NewerRowsOf(r.id, r.target)) < limit =>
                   ReadHas(get_action_history(r.target, limit, TRUE),
                           r.id, r.target, StatusesNow(r.id))
            /\ Cardinality(NewerRows(r.id)) < limit =>
                   ReadHas(get_pending_actions(limit, TRUE),
                           r.id, r.target, StatusesNow(r.id))

\* an ID was returned for target 55, another row was enqueued after it and
\* the bot has written back to the first
C8_Witness ==
    /\ Len(outbox) = 2
    /\ [id |-> outbox[1].id, target |-> 55] \in hist.returned
    /\ outbox[1].id \in hist.written
    /\ outbox[2].status = "pending"
    /\ outbox[2].target_user_id = 55

-----------------------------------------------------------------------------
(* C9: a step that is not the bot's write-back leaves every row of the     *)
(* outbox as it was (status, result, executed_at and all other columns);   *)
(* a step of the bot changes one row, from 'pending' to 'executed' or      *)
(* 'failed', and no other.                                                 *)
RowsKept(except) ==
    /\ Len(outbox') >= Len(outbox)
    /\ \A i \in 1..Len(outbox) : i \notin except => outbox'[i] = outbox[i]

BotMoved(i) ==
    /\ outbox[i].status = "pending"
    /\ outbox'[i].status \in BotStatuses
    /\ outbox'[i].id = outbox[i].id
    /\ Len(outbox') = Len(outbox)

C9_OnlyTheBotMovesRows ==
    [][IF hist'.written = hist.written
       THEN RowsKept({})
       ELSE \E i \in 1..Len(outbox) : BotMoved(i) /\ RowsKept({i})]_vars

\* a pending row has seen a later enqueue and a write-back to another row
C9_Witness ==
    /\ Len(outbox) = 2
    /\ outbox[1].status = "pending"
    /\ outbox[2].status = "failed"
    /\ outbox[1].target_user_id = outbox[2].target_user_id
    /\ hist.written = {outbox[2].id}

-----------------------------------------------------------------------------
(* C10: whenever queue_action returns a non-zero ID, the outbox is the old *)
(* outbox with exactly one row appended, which has that ID, status         *)
(* 'pending', no result and no executed_at, and the action type, target,   *)
(* staff ID, staff name and params of the call (None stored as the empty   *)
(* document); the ID is positive and differs from every ID returned        *)
(* before.                                                                 *)
GivenDocument(params) == IF params.is_none THEN {} ELSE params.items

CarriesRequest(row, req) ==
    /\ row.action_type = req.action_type
    /\ row.target_user_id = req.target_user_id
    /\ row.staff_id = req.staff_id
    /\ row.staff_name = req.staff_name
    /\ JsonLoads(row.params) = GivenDocument(req.params)
    /\ row.status = "pending"
    /\ row.result = "NULL"
    /\ row.executed_at = "NULL"

C10_EnqueueAppendsOneRow ==
    \A req \in Requests, o \in QueueOutcomes :
        LET q == queue_action(outbox, seq, req.action_type,
                              req.target_user_id, req.staff_id,
                              req.staff_name, req.params, o)
        IN  q.ret # 0 =>
                /\ Len(q.outbox) = Len(outbox) + 1
                /\ SubSeq(q.outbox, 1, Len(outbox)) = outbox
                /\ q.outbox[Len(q.outbox)].id = q.ret
                /\ CarriesRequest(q.outbox[Len(q.outbox)], req)
                /\ q.ret > 0
                /\ \A r \in hist.returned : r.id # q.ret
                /\ \A i \in 1..Len(outbox) : outbox[i].id # q.ret

\* two enqueues have succeeded around a failed one that cost a sequence
\* value; the rows carry a None params and a given one
C10_Witness ==
    /\ Len(outbox) = 2
    /\ Cardinality(hist.returned) = 2
    /\ outbox[2].id > outbox[1].id + 1
    /\ outbox[1].params = JsonDumps({})
    /\ outbox[1].action_type = "warn"
    /\ outbox[1].target_user_id = 55
    /\ outbox[2].params = JsonDumps({<<"reason", "spam">>})

-----------------------------------------------------------------------------
(* C11: whichever staff-action request is served, when its queue_action    *)
(* fails (no row stored, 0 handed back) the request does not answer with   *)
(* the success redirect and does not record its 'queued_*' audit entry;    *)
(* the success redirect and the audit entry come only with a stored row.   *)
C11_EnqueueFailureIsSurfaced ==
    \A name \in ActionRoutes, u \in UserIds, a \in BOOLEAN :
        LET r == Route(name, u, Member, "error", a)
        IN  /\ r.outbox = outbox
            /\ r.resp # "success=queued"
            /\ r.audit = audit

-----------------------------------------------------------------------------
(* C12: whichever request is served (a staff action, one of the four       *)
(* settings requests, an application), what it leaves behind when its      *)
(* add_audit fails is what it leaves behind when add_audit succeeds,       *)
(* except that the audit log stays as it was: the primary write (outbox    *)
(* row and returned ID, staff_roles / role_config change, application row) *)
(* and the response are the same, and add_audit itself returns normally.   *)
PositionIds == {7}

C12_AuditIsBestEffort ==
    /\ \A name \in ActionRoutes, u \in UserIds, o \in {"ok", "error"} :
            Route(name, u, Member, o, FALSE) =
                [Route(name, u, Member, o, TRUE) EXCEPT !.audit = audit]
    /\ \A u \in UserIds, d \in FormIds, t \in FormTiers, dbOk \in BOOLEAN :
            add_staff(u, d, t, dbOk, FALSE) =
                [add_staff(u, d, t, dbOk, TRUE) EXCEPT !.audit = audit]
    /\ \A u \in UserIds, d \in UserIds, dbOk \in BOOLEAN :
            remove_staff(u, d, dbOk, FALSE) =
                [remove_staff(u, d, dbOk, TRUE) EXCEPT !.audit = audit]
    /\ \A u \in UserIds, d \in FormRoleIds, t \in FormTiers,
          dbOk \in BOOLEAN :
            add_role(u, d, t, dbOk, FALSE) =
                [add_role(u, d, t, dbOk, TRUE) EXCEPT !.audit = audit]
    /\ \A u \in UserIds, d \in PathRoleIds, dbOk \in BOOLEAN :
            remove_role(u, d, dbOk, FALSE) =
                [remove_role(u, d, dbOk, TRUE) EXCEPT !.audit = audit]
    /\ \A u \in UserIds, p \in PositionIds, subOk \in BOOLEAN :
            apply_submit(u, <<>>, p, subOk, FALSE) =
                [apply_submit(u, <<>>, p, subOk, TRUE) EXCEPT !.audit = audit]
    /\ \A u \in UserIds :
            add_audit(audit, FALSE, u, "queued_ban", Member) = audit

\* a ban was queued by a tier-3 session while its audit insert failed
C12_Witness ==
    /\ Len(outbox) = 1
    /\ outbox[1].action_type = "ban"
    /\ outbox[1].id \in {r.id : r \in hist.returned}
    /\ audit = <<>>

-----------------------------------------------------------------------------
-----------------------------------------------------------------------------
(* C14: in every step of a staff-action request taken statement by         *)
(* statement: a request gets past its first statement only with a session  *)
(* that passes the gate of its route, and nothing is written for a request *)
(* that did not; the outbox row is written by a request that has passed    *)
(* the gate and written nothing yet, in a step that leaves the audit log   *)
(* alone; the audit row is written after the outbox insert was attempted,  *)
(* in a step that leaves the outbox alone; and a crash takes back neither  *)
(* table, so that a crash after the outbox insert leaves the row without   *)
(* an audit row.                                                           *)
GateFirst ==
    (inflight.stage # "gated" /\ inflight'.stage = "gated") =>
        /\ inflight.stage \in {"idle", "crashed"}
        /\ GatePasses(inflight'.u, RouteType(inflight'.route))
        /\ outbox' = outbox /\ audit' = audit

OutboxBeforeAudit ==
    /\ outbox' # outbox =>
            /\ inflight.stage = "gated" /\ inflight'.stage = "queued"
            /\ Len(outbox') = Len(outbox) + 1
            /\ SubSeq(outbox', 1, Len(outbox)) = outbox
            /\ outbox'[Len(outbox')].id = inflight'.ret
            /\ outbox'[Len(outbox')].action_type = RouteType(inflight.route)
            /\ audit' = audit
    /\ audit' # audit =>
            /\ inflight.stage = "queued"
            /\ audit' = Append(audit, audit'[Len(audit')])
            /\ audit'[Len(audit')].staff_id = inflight.u
            /\ outbox' = outbox

CrashKeepsRows ==
    (inflight.stage # "crashed" /\ inflight'.stage = "crashed") =>
        /\ outbox' = outbox /\ audit' = audit
        /\ inflight.ret # 0 =>
                \E i \in 1..Len(outbox') : outbox'[i].id = inflight.ret

C14_StaffActionProtocolOrder ==
    [][GateFirst /\ OutboxBeforeAudit /\ CrashKeepsRows]_vars

\* the process died between the two inserts of a kick: the row is in the
\* outbox, pending, and the audit log is empty
C14_Witness ==
    /\ inflight.stage = "crashed"
    /\ inflight.route = "kick"
    /\ inflight.ret # 0
    /\ Len(outbox) = 1
    /\ outbox[1].id = inflight.ret
    /\ outbox[1].status = "pending"
    /\ audit = <<>>

-----------------------------------------------------------------------------
(* The stored documents as the claims about the data layer speak of them.  *)

\* the user map: the "users" object of main_data, empty without one
StoredUsers ==
    IF blobs.main_data.row /\ ~blobs.main_data.empty
    THEN blobs.main_data.users ELSE <<>>

StoredKeys == {StoredUsers[i].key : i \in 1..Len(StoredUsers)}

\* position of a key in the iteration order of the user map
SourcePos(key) ==
    CHOOSE i \in 1..Len(StoredUsers) : StoredUsers[i].key = key

\* the ELO map: the "elo" object of duels_data, empty without one
StoredElo ==
    IF blobs.duels_data.row /\ ~blobs.duels_data.empty
       /\ blobs.duels_data.has_elo
    THEN blobs.duels_data.elo ELSE <<>>

\* a user's value for a sort field: the ELO map's entry (default 1000) for
\* elo_rating, else the profile's number, absent and null counted as 0
ValueOf(key, field) ==
    IF field = "elo_rating"
    THEN (IF key \in DOMAIN StoredElo THEN StoredElo[key] ELSE 1000)
    ELSE LET p == StoredUsers[SourcePos(key)].profile
         IN  IF field \in DOMAIN p /\ p[field] # JNull THEN p[field].n ELSE 0

-----------------------------------------------------------------------------
(* C15: a get_user_rank(userID, sortField) returns 0 when the string form  *)
(* of userID is not a key of the user map; otherwise 1 + the number of     *)
(* other users whose value for sortField is strictly greater than the      *)
(* subject's.  Then the holder of the unique maximum gets 1, and every     *)
(* user tied with the subject gets the subject's rank.                     *)
Greater(key, field) ==
    {k \in StoredKeys \ {key} : ValueOf(k, field) > ValueOf(key, field)}

C15_RankCountsStrictlyGreater ==
    reply.op = "get_user_rank" =>
        LET key == StrOfInt(reply.args.uid)
            field == reply.args.sort_by
        IN  IF key \notin StoredKeys
            THEN reply.result = 0
            ELSE /\ reply.result = 1 + Cardinality(Greater(key, field))
                 /\ (\A k \in StoredKeys \ {key} :
                        ValueOf(k, field) < ValueOf(key, field))
                        => reply.result = 1
                 /\ \A k \in StoredKeys :
                        ValueOf(k, field) = ValueOf(key, field)
                            => get_user_rank(IntOf(k), field) = reply.result

\* a user tied on coins with the only other user was ranked 1, and the
\* other user has the lower ELO
C15_Witness ==
    /\ reply.op = "get_user_rank"
    /\ reply.args.sort_by = "coins"
    /\ reply.result = 1
    /\ Len(StoredUsers) = 2
    /\ StrOfInt(reply.args.uid) \in StoredKeys
    /\ \A k \in StoredKeys : ValueOf(k, "coins") = 3
    /\ get_user_rank(reply.args.uid, "elo_rating") = 1
    /\ \E k \in StoredKeys : get_user_rank(IntOf(k), "elo_rating") = 2

-----------------------------------------------------------------------------
(* C16: for a sort field of the allow-list, the full leaderboard holds     *)
(* every user of the user map once, in descending order of the field's     *)
(* value (absent and null as 0), users of equal value in the iteration     *)
(* order of the user map; and get_leaderboard(sortField, limit, offset)    *)
(* returns its elements at positions offset .. offset+limit-1, which are   *)
(* in descending order and at most limit many.                             *)
KeyOfEntry(x) == StrOfInt(x.user_id)

IsFullBoard(full, field) ==
    /\ Len(full) = Len(StoredUsers)
    /\ {KeyOfEntry(full[i]) : i \in 1..Len(full)} = StoredKeys
    /\ \A i, j \in 1..Len(full) :
            i < j =>
                /\ ValueOf(KeyOfEntry(full[i]), field)
                        >= ValueOf(KeyOfEntry(full[j]), field)
                /\ ValueOf(KeyOfEntry(full[i]), field)
                        = ValueOf(KeyOfEntry(full[j]), field)
                    => SourcePos(KeyOfEntry(full[i]))
                            < SourcePos(KeyOfEntry(full[j]))

Window(full, limit, offset) ==
    SubSeq(full, offset + 1,
           IF offset + limit < Len(full) THEN offset + limit ELSE Len(full))

C16_LeaderboardIsSortedWindow ==
    (reply.op = "get_leaderboard" /\ reply.args.sort_by \in AllowedSorts) =>
        LET field == reply.args.sort_by
            full == get_leaderboard(field, Len(StoredUsers), 0)
            res == reply.result
        IN  /\ IsFullBoard(full, field)
            /\ res = Window(full, reply.args.limit, reply.args.offset)
            /\ Len(res) <= reply.args.limit
            /\ \A i, j \in 1..Len(res) :
                    i < j => ValueOf(KeyOfEntry(res[i]), field)
                                >= ValueOf(KeyOfEntry(res[j]), field)

\* the second place of the xp board was asked for (limit 1, offset 1) and
\* went to the later of two users tied on xp
C16_Witness ==
    /\ reply.op = "get_leaderboard"
    /\ reply.args = Args(0, "xp", 1, 1)
    /\ Len(StoredUsers) = 2
    /\ ValueOf(StoredUsers[1].key, "xp") = ValueOf(StoredUsers[2].key, "xp")
    /\ Len(reply.result) = 1
    /\ KeyOfEntry(reply.result[1]) = StoredUsers[2].key

-----------------------------------------------------------------------------
(* C17: a get_leaderboard(sortField, limit, offset) with a sortField       *)
(* outside the allow-list returns the list get_leaderboard("xp", limit,    *)
(* offset) returns.                                                        *)
C17_UnknownSortFallsBackToXp ==
    (reply.op = "get_leaderboard" /\ reply.args.sort_by \notin AllowedSorts)
        => reply.result = get_leaderboard("xp", reply.args.limit,
                                          reply.args.offset)

\* a board asked for by user_id came back in xp order, the lower ID first
C17_Witness ==
    /\ reply.op = "get_leaderboard"
    /\ reply.args.sort_by = "user_id"
    /\ Len(reply.result) = 2
    /\ reply.result[1].user_id < reply.result[2].user_id
    /\ ValueOf(KeyOfEntry(reply.result[1]), "xp")
            > ValueOf(KeyOfEntry(reply.result[2]), "xp")

-----------------------------------------------------------------------------
(* C18: a get_user(userID) returns absent exactly when the string form of  *)
(* userID is not a key of the user map, a profile with no fields included, *)
(* and returns a record exactly when get_user_rank ranks the user.         *)
C18_AbsentExactlyWhenKeyMissing ==
    reply.op = "get_user" =>
        /\ reply.result.present
                <=> StrOfInt(reply.args.uid) \in StoredKeys
        /\ reply.result.present
                <=> get_user_rank(reply.args.uid, "xp") # 0

-----------------------------------------------------------------------------
(* C19: a record get_user returns carries, as elo_rating, the ELO map's    *)
(* entry of the user or 1000 without one (a missing or empty duels         *)
(* document included); as warnings and warning_points, the "warnings" and  *)
(* "total_points" of the user's entry of the warning document, or the      *)
(* empty list and 0; and as stage_rank, what get_stage_rank(userID)        *)
(* returns.  (A stored profile with no fields gets no record: see C18.)    *)
StoredWarnings ==
    IF blobs.warnings_data.row /\ ~blobs.warnings_data.empty
    THEN blobs.warnings_data.users ELSE <<>>

-----------------------------------------------------------------------------
(* C20: a get_stage_rank(userID) returns the 1-based index of the first    *)
(* roster slot that is not null and whose value, an integer or a string,   *)
(* has the decimal string form of userID; and absent when there is no such *)
(* slot.                                                                   *)
StoredRoster ==
    IF blobs.main_data.row /\ ~blobs.main_data.empty
       /\ blobs.main_data.has_roster
    THEN blobs.main_data.roster
    ELSE [i \in 1..10 |-> JNull]

SlotIs(slot, uid) ==
    \/ slot.t = "int" /\ slot.n = uid
    \/ slot.t = "str" /\ slot.s = StrOfInt(uid)

C20_StageRankIsFirstMatchingSlot ==
    reply.op = "get_stage_rank" =>
        LET uid == reply.args.uid
            r == reply.result
        IN  IF \E i \in 1..Len(StoredRoster) : SlotIs(StoredRoster[i], uid)
            THEN /\ r \in 1..Len(StoredRoster)
                 /\ SlotIs(StoredRoster[r], uid)
                 /\ \A j \in 1..(r - 1) : ~SlotIs(StoredRoster[j], uid)
            ELSE r = NoneId

\* roster [null, "42", null]: user 42 got 2, and user 99 gets absent
C20_Witness ==
    /\ reply.op = "get_stage_rank"
    /\ reply.args.uid = 42
    /\ StoredRoster = <<JNull, JStr(K42), JNull>>
    /\ reply.result = 2
    /\ get_stage_rank(99) = NoneId

-----------------------------------------------------------------------------
(* C21: a get_user_warnings(userID) returns, for every warning stored      *)
(* under the user in the warnings document, a warning of the same          *)
(* category, reason and timestamp that carries a field "active" equal to   *)
(* the negation of the stored "expired".                                   *)
StoredWarningsOf(key) ==
    IF key \in DOMAIN StoredWarnings /\ StoredWarnings[key].has_warnings
    THEN StoredWarnings[key].warnings ELSE <<>>

C21_WarningRoundTrip ==
    reply.op = "get_user_warnings" =>
        LET stored == StoredWarningsOf(StrOfInt(reply.args.uid))
            got == reply.result.warnings
        IN  \A i \in 1..Len(stored) :
                \E j \in 1..Len(got) :
                    /\ got[j].category = stored[i].category
                    /\ got[j].reason = stored[i].reason
                    /\ got[j].timestamp = stored[i].timestamp
                    /\ "active" \in DOMAIN got[j]
                    /\ got[j].active = ~stored[i].expired

-----------------------------------------------------------------------------
(* C24: a get_analytics counts every user of the user map in exactly one   *)
(* of the buckets 24h (less than 1 day since last_active), 7d (less than   *)
(* 7 days), 30d (less than 30 days) and inactive, a user whose last_active *)
(* is absent or does not parse in inactive; so the four counts sum to      *)
(* total_users, the number of users.                                       *)
\* seconds since last_active at the instant now, -1 when last_active is
\* absent, empty or no text that parses
AgeKnown(p) ==
    /\ "last_active" \in DOMAIN p
    /\ p["last_active"].t = "str"
    /\ p["last_active"].s # <<>>
    /\ ReplaceZ(p["last_active"].s[1]) \in DOMAIN IsoInstant

Age(p, now) == now - IsoInstant[ReplaceZ(p["last_active"].s[1])]

WindowOf(p, now) ==
    IF ~AgeKnown(p) THEN "inactive"
    ELSE IF Age(p, now) < 86400 THEN "24h"
    ELSE IF Age(p, now) < 7 * 86400 THEN "7d"
    ELSE IF Age(p, now) < 30 * 86400 THEN "30d"
    ELSE "inactive"

C24_ActivityWindowsPartition ==
    reply.op = "get_analytics" =>
        LET a == reply.result.activity_breakdown
            now == reply.args.uid
        IN  /\ reply.result.total_users = Len(StoredUsers)
            /\ a["24h"] + a["7d"] + a["30d"] + a["inactive"]
                    = reply.result.total_users
            /\ \A b \in {"24h", "7d", "30d", "inactive"} :
                    a[b] = Cardinality({i \in 1..Len(StoredUsers) :
                                WindowOf(StoredUsers[i].profile, now) = b})

\* two users, one active 6 hours ago and one whose last_active does not
\* parse: one in 24h, one in inactive
C24_Witness ==
    /\ reply.op = "get_analytics"
    /\ reply.result.total_users = 2
    /\ reply.result.activity_breakdown["24h"] = 1
    /\ reply.result.activity_breakdown["inactive"] = 1
    /\ \E i \in 1..2 :
            StoredUsers[i].profile = ("last_active" :> Text("yesterday"))

-----------------------------------------------------------------------------
(* C25: a staff_roles entry is created, changed or deleted only while a    *)
(* session is staff with a permission tier at least the entry's tier       *)
(* (the requesting session is one of the sessions).                        *)
TierCovered(r) ==
    \E u \in DOMAIN sessions :
        /\ sessions[u].is_staff
        /\ sessions[u].permission_tier >= r.permission_tier

C25_StaffMutationsRespectTier ==
    [][/\ \A r \in staff_roles' \ staff_roles : TierCovered(r)
       /\ \A r \in staff_roles \ staff_roles' : TierCovered(r)]_vars

-----------------------------------------------------------------------------
(* C28: whether a staff-action or settings request of a user passes its    *)
(* gate is decided by the is_staff and permission_tier of the user's       *)
(* session alone, and a step that leaves the session as it is (an          *)
(* add_staff, remove_staff, add_role or remove_role, or another user's     *)
(* login or logout) leaves every gate's outcome for that user as it was.   *)
GateTiers == {0, 2, 3}

SnapshotDecides(u) ==
    /\ _require_staff(u) <=> ~(HasSession(u) /\ sessions[u].is_staff)
    /\ \A t \in GateTiers :
            Gate(u, t) = "pass"
                <=> /\ HasSession(u)
                    /\ sessions[u].is_staff
                    /\ sessions[u].permission_tier >= t

SessionKept(u) ==
    \/ ~HasSession(u) /\ ~HasSession(u)'
    \/ HasSession(u) /\ HasSession(u)' /\ sessions'[u] = sessions[u]

C28_GateUsesLoginSnapshot ==
    [][\A u \in UserIds :
        /\ SnapshotDecides(u)
        /\ SessionKept(u) =>
                /\ _require_staff(u)' = _require_staff(u)
                /\ \A t \in GateTiers : Gate(u, t)' = Gate(u, t)]_vars

\* a user logged in at tier 2 has a tier 3 row in staff_roles by now, and
\* the ban gate still turns the session away
C28_Witness ==
    \E u \in UserIds :
        /\ HasSession(u)
        /\ sessions[u].is_staff
        /\ sessions[u].permission_tier = 2
        /\ [discord_user_id |-> u, permission_tier |-> 3] \in staff_roles
        /\ Gate(u, 2) = "pass"
        /\ Gate(u, 3) = "error=insufficient_permissions"

-----------------------------------------------------------------------------
(* C29: staff_roles holds at most one row per user ID, with a tier in      *)
(* {1, 2, 3}.  An add_staff request that went through leaves is_db_staff   *)
(* of its user at (true, t), t the tier posted, or 1 for a tier outside    *)
(* 1..3, and posted again leaves the table as it is; a remove_staff        *)
(* request that went through leaves it at (false, 0); and the row of a     *)
(* user changes only in a request of one of the two kinds for that user.   *)
RowsOf(id) == {r \in staff_roles : r.discord_user_id = id}

OneRowPerUser ==
    /\ \A r \in staff_roles : r.permission_tier \in {1, 2, 3}
    /\ \A r1, r2 \in staff_roles :
            r1.discord_user_id = r2.discord_user_id => r1 = r2

AddWentThrough ==
    /\ reply.op = "add_staff"
    /\ reply.result = "/staff/settings?success=staff_added"

RemoveWentThrough ==
    /\ reply.op = "remove_staff"
    /\ reply.args.dbOk
    /\ reply.result = "/staff/settings?success=staff_removed"

LastRequestShows ==
    /\ AddWentThrough =>
            LET a == reply.args
                t == IF a.tier \in 1..3 THEN a.tier ELSE 1
            IN  /\ is_db_staff(Store, IntOf(a.id), TRUE) = Returned(TRUE, t)
                /\ add_staff(a.u, a.id, a.tier, TRUE, FALSE).table = staff_roles
    /\ RemoveWentThrough =>
            is_db_staff(Store, reply.args.id, TRUE) = Returned(FALSE, 0)

RowChangesByRequest ==
    \A id \in UserIds :
        RowsOf(id)' # RowsOf(id) =>
            \/ AddWentThrough' /\ IntOf(reply'.args.id) = id
            \/ RemoveWentThrough' /\ reply'.args.id = id

C29_StaffRolesUpsert ==
    /\ [](OneRowPerUser /\ LastRequestShows)
    /\ [][RowChangesByRequest]_vars

\* user 2, in staff_roles at tier 1 after the last add, posted with tier 7
C29_Witness ==
    /\ AddWentThrough
    /\ reply.args.tier = 7
    /\ IntOf(reply.args.id) = 2
    /\ is_db_staff(Store, 2, TRUE) = Returned(TRUE, 1)
    /\ Cardinality(staff_roles) = 2

-----------------------------------------------------------------------------
(* C30: every row a get_pending_actions returns has the status 'pending':  *)
(* a row the bot has set to 'executed' or 'failed' is not in the list.     *)
C30_PendingListHoldsOnlyPending ==
    LET listed == get_pending_actions(PendingLimit, TRUE)
    IN  \A i \in 1..Len(listed) : listed[i].status = "pending"

-----------------------------------------------------------------------------
(* C23: no dashboard operation writes json_data: a step that changes one   *)
(* of the three documents is a write of the bot, which changes nothing     *)
(* the dashboard keeps; and no stored profile carries user_id, elo_rating, *)
(* warnings, warning_points, stage_rank, avatar_url or inventory_items.    *)
DerivedFields ==
    {"user_id", "elo_rating", "warnings", "warning_points", "stage_rank",
     "avatar_url", "inventory_items"}

NoDerivedFieldStored ==
    \A i \in 1..Len(StoredUsers) :
        DOMAIN StoredUsers[i].profile \cap DerivedFields = {}

DashboardKeeps ==
    UNCHANGED <<staff_roles, role_config, sessions, outbox, seq, audit,
                inflight, reply>>

C23_DerivedFieldsNeverPersisted ==
    /\ []NoDerivedFieldStored
    /\ [][blobs' # blobs => DashboardKeeps]_vars

\* get_user has returned user 1 decorated, a staff action is queued, and
\* the stored profile of user 1 is the one the bot wrote
C23_Witness ==
    /\ reply.op = "get_user"
    /\ reply.result.present
    /\ reply.result.user_id = 1
    /\ reply.result.elo_rating = 1200
    /\ Len(outbox) = 1
    /\ StoredUsers = <<[key |-> K1, profile |-> ("xp" :> JInt(100))]>>

-----------------------------------------------------------------------------
(* C27: every field of a record get_user returns is the value of its       *)
(* source as the call read it: the profile of the user map read first,     *)
(* the ELO of the duels document read second, the warnings of the warning  *)
(* document read third, the stage rank of the roster read last.  When the  *)
(* bot wrote nothing between the reads, the four are documents of one      *)
(* store state, the one of the first read.  (That the bot's writes between *)
(* the reads give a record no single store state gives is C27_Witness.)    *)
ProfileIn(main, key) ==
    (CHOOSE e \in {main.users[i] : i \in 1..Len(main.users)} : e.key = key).profile

EloIn(duels, key) ==
    IF duels.row /\ ~duels.empty /\ duels.has_elo /\ key \in DOMAIN duels.elo
    THEN duels.elo[key] ELSE 1000

EntryIn(doc, key) ==
    IF doc.row /\ ~doc.empty /\ key \in DOMAIN doc.users THEN doc.users[key]
    ELSE NoEntry

StageRankIn(main, uid) ==
    LET roster == IF main.row /\ ~main.empty /\ main.has_roster
                  THEN main.roster ELSE <<>>
        Hits == {i \in 1..Len(roster) : SlotIs(roster[i], uid)}
    IN  IF Hits = {} THEN NoneId ELSE CHOOSE i \in Hits : \A j \in Hits : i <= j

C27_ViewIsPerCallAndPerRead ==
    (reply.op = "get_user" /\ "seen" \in DOMAIN reply /\ reply.result.present) =>
        LET v == reply.result
            seen == reply.seen
            key == StrOfInt(reply.args.uid)
        IN  /\ v.fields = ProfileIn(seen.users_from, key)
            /\ v.elo_rating = EloIn(seen.duels_from, key)
            /\ v.warnings = (IF EntryIn(seen.warnings_from, key).has_warnings
                             THEN EntryIn(seen.warnings_from, key).warnings
                             ELSE <<>>)
            /\ v.warning_points = (IF EntryIn(seen.warnings_from, key).has_points
                                   THEN EntryIn(seen.warnings_from, key).total_points
                                   ELSE 0)
            /\ v.stage_rank = StageRankIn(seen.roster_from, reply.args.uid)
            /\ seen.quiet =>
                    /\ seen.users_from = seen.first.main_data
                    /\ seen.duels_from = seen.first.duels_data
                    /\ seen.warnings_from = seen.first.warnings_data
                    /\ seen.roster_from = seen.first.main_data

\* the bot wrote the duels document and the roster during the call: the
\* record has the profile of the first read (xp 100) with the ELO 900 and
\* the stage rank 2 written after it, which the store of the first read
\* (ELO 1200, stage rank 1) does not give
C27_Witness ==
    /\ reply.op = "get_user"
    /\ "seen" \in DOMAIN reply
    /\ reply.result.present
    /\ ~reply.seen.quiet
    /\ reply.result.fields = ("xp" :> JInt(100))
    /\ EloIn(reply.seen.first.duels_data, K1) = 1200
    /\ reply.result.elo_rating = 900
    /\ StageRankIn(reply.seen.first.main_data, 1) = 1
    /\ reply.result.stage_rank = 2

-----------------------------------------------------------------------------
(* C22: no read raises to its caller; and with the row of main_data        *)
(* absent, empty, undecodable, no JSON object or out of reach, a read of   *)
(* the user map gives its empty result: no user, an empty leaderboard,     *)
(* rank 0, no stage rank, 0 users; with the outbox query failing, the      *)
(* list of actions is empty.                                               *)
Unusable(key) ==
    \/ ~blobs[key].row
    \/ blobs[key].empty
    \/ blobs[key].form # "object"

EmptyResult ==
    CASE reply.op = "get_user" -> ~reply.result.present
      [] reply.op = "get_stage_rank" -> reply.result = NoneId
      [] reply.op = "get_leaderboard" -> reply.result = <<>>
      [] reply.op = "get_user_rank" -> reply.result = 0
      [] reply.op = "get_analytics" -> reply.result.total_users = 0
      [] OTHER -> TRUE

C22_ReadPathsNeverRaise ==
    "raised" \in DOMAIN reply =>
        /\ ~reply.raised
        /\ Unusable("main_data") => EmptyResult
        /\ (reply.op = "get_pending_actions" /\ ~reply.args.ok)
                => reply.result = <<>>

-----------------------------------------------------------------------------
(* C26: an operation holds at most one connection at a time, waits for a   *)
(* connection only while it holds none, and holds none when it returns;    *)
(* and a request waiting for a connection gets one.                        *)
OneConnectionAtATime ==
    \A w \in Workers :
        /\ inflight[w].holds <= 1
        /\ inflight[w].pc \in {"acquire", "return", "idle"}
                => inflight[w].holds = 0

C26_ConnectionDiscipline ==
    /\ []OneConnectionAtATime
    /\ \A w \in Workers :
            (inflight[w].pc = "acquire") ~> (inflight[w].pc = "run")

\* one worker is in the second call of get_user with the only connection
\* while another waits for it
C26_Witness ==
    \E w, x \in Workers :
        /\ inflight[w].op = "get_user"
        /\ Len(inflight[w].calls) = 3
        /\ inflight[w].holds = 1
        /\ inflight[x].pc = "acquire"
        /\ InUse = PoolSize

====
